---- MODULE Spec2Model ----
(***************************************************************************)
(* A model of nmapthon2: the port and address range algebra (utils.py),    *)
(* the port selection object (ports.py), report ingestion (parser.py),     *)
(* the result entities (elements.py) and the script engine's dispatch      *)
(* (engine.py, scanner.py).                                                *)
(*                                                                         *)
(* Python strings are sequences of one-character strings, so that          *)
(* formatting (str) and parsing (int, split, replace) are computed and     *)
(* not assumed.  A Python exception is a result record whose err field     *)
(* names the exception class; err = "" is a normal return.                 *)
(***************************************************************************)
EXTENDS Integers, Sequences, FiniteSets, TLC

VARIABLES
    pa_pc,      \* port algebra: "idle", "start", "rendered", "roundtrip", "parsed"
    pa_arg,     \* the argument: [kind |-> "list" or "str", v |-> the value]
    pa_str,     \* what ports_to_str returned
    pa_list,    \* what ports_to_list returned
    net_pc,     \* dispatch_network: "idle", "start", "done"
    net_arg,    \* its argument, a string
    net_ret,    \* what it returned
    ipr_pc,     \* ip_range: "idle", "start", "loop", "done"
    ipr_arg,    \* its arguments <<starting_ip, ending_ip>>, two strings
    split_starting_ip,
    split_ending_ip,
    ip_range_list,  \* the local list ip_range builds and returns
    sel,        \* a _PortAbstraction instance
    sel_last,   \* the last call on it: [op, arg, err, before]
    sel_syntax, \* what the last to_nmap_syntax returned
    el_host,    \* a Host with its Ports and their Services
    el_last,    \* the last _add_script call on it: [op, port, name, output, err, before]
    xml_report,   \* the report given to XMLParser._parse
    parse_pc,     \* where _parse is: "start", "hosts", "returned", "raised"
    scan_result,  \* the hosts _parse has added to its NmapScanResult so far
    parse_ret,    \* what _parse returned or raised
    dsp_engine,   \* the NSE instance given to the scanner
    dsp_result,   \* the hosts of the NmapScanResult the scripts and parsers work on
    dsp_pc,       \* where the dispatch loop is: "host", "parsers", "port_scripts",
                  \* "returned", "raised"
    dsp_h,        \* index of the current host
    dsp_p,        \* index of the current port of that host
    dsp_trace,    \* every callback or parser application so far, in order
    dsp_err,      \* the exception that left the dispatch loop, "" if none
    reg_engine,   \* the NSE instance the registration calls are made on
    reg_last,     \* the last registration call: [op, args, err, before]
    idx_hosts,   \* the hosts of the NmapScanResult that is indexed
    idx_last,  \* the last result[v]: [v, ret]
    as_scanner,   \* an NmapAsyncScanner instance
    as_child,   \* the latest nmap child process with its stdout pipe
    as_read,   \* what the calls since the last launch or reset read from the pipe
    as_last   \* the last call on the scanner: [op, err, ret, read, before]

portVars == <<pa_pc, pa_arg, pa_str, pa_list>>
netVars == <<net_pc, net_arg, net_ret>>
iprVars == <<ipr_pc, ipr_arg, split_starting_ip, split_ending_ip, ip_range_list>>
addrVars == <<netVars, iprVars>>
selVars == <<sel, sel_last, sel_syntax>>
elVars == <<el_host, el_last>>
parseVars == <<xml_report, parse_pc, scan_result, parse_ret>>
dspVars == <<dsp_engine, dsp_result, dsp_pc, dsp_h, dsp_p, dsp_trace, dsp_err>>
regVars == <<reg_engine, reg_last>>
idxVars == <<idx_hosts, idx_last>>
asyncVars == <<as_scanner, as_child, as_read, as_last>>
vars == <<portVars, addrVars, selVars, elVars, parseVars, dspVars, regVars, idxVars, asyncVars>>

\* the variables each group of operations leaves alone
exceptPorts == <<addrVars, selVars, elVars, parseVars, dspVars, regVars, idxVars, asyncVars>>
exceptAddr == <<portVars, selVars, elVars, parseVars, dspVars, regVars, idxVars, asyncVars>>
exceptSel == <<portVars, addrVars, elVars, parseVars, dspVars, regVars, idxVars, asyncVars>>
exceptEl == <<portVars, addrVars, selVars, parseVars, dspVars, regVars, idxVars, asyncVars>>
exceptParse == <<portVars, addrVars, selVars, elVars, dspVars, regVars, idxVars, asyncVars>>
exceptDsp == <<portVars, addrVars, selVars, elVars, parseVars, regVars, idxVars, asyncVars>>
exceptReg == <<portVars, addrVars, selVars, elVars, parseVars, dspVars, idxVars, asyncVars>>
exceptIdx == <<portVars, addrVars, selVars, elVars, parseVars, dspVars, regVars, asyncVars>>
exceptAsync == <<portVars, addrVars, selVars, elVars, parseVars, dspVars, regVars, idxVars>>

None == "None"

\* the port functions are not in use
PortsIdle ==
    /\ pa_pc = "idle"
    /\ pa_arg = None
    /\ pa_str = None
    /\ pa_list = None

\* the address functions are not in use
AddrIdle ==
    /\ net_pc = "idle" /\ net_arg = None /\ net_ret = None
    /\ ipr_pc = "idle" /\ ipr_arg = None
    /\ split_starting_ip = None /\ split_ending_ip = None /\ ip_range_list = None

Ok(v) == [err |-> "", val |-> v]
Raise(e) == [err |-> e, val |-> None]

(***************************************************************************)
(* Strings                                                                 *)
(***************************************************************************)
DigitChars == <<"0", "1", "2", "3", "4", "5", "6", "7", "8", "9">>

IsDigit(c) == \E d \in 1..10 : DigitChars[d] = c

DigitVal(c) == (CHOOSE d \in 1..10 : DigitChars[d] = c) - 1

\* str(n) of a non negative int, and of a negative one
RECURSIVE NatToStr(_)
NatToStr(n) ==
    IF n < 10 THEN <<DigitChars[n + 1]>>
    ELSE NatToStr(n \div 10) \o <<DigitChars[(n % 10) + 1]>>

IntToStr(n) == IF n < 0 THEN <<"-">> \o NatToStr(0 - n) ELSE NatToStr(n)

\* int(s) succeeds on a non-empty run of decimal digits (the strings of the
\* model hold no sign other than the dash the callers split on, no
\* underscore and no blank other than the space the callers remove)
IsIntLiteral(s) == Len(s) > 0 /\ \A i \in 1..Len(s) : IsDigit(s[i])

RECURSIVE StrToInt(_)
StrToInt(s) ==
    IF Len(s) = 0 THEN 0
    ELSE 10 * StrToInt(SubSeq(s, 1, Len(s) - 1)) + DigitVal(s[Len(s)])

\* s.replace(c, '')
RECURSIVE RemoveChar(_, _)
RemoveChar(s, c) ==
    IF Len(s) = 0 THEN <<>>
    ELSE IF Head(s) = c THEN RemoveChar(Tail(s), c)
    ELSE <<Head(s)>> \o RemoveChar(Tail(s), c)

\* s.split(c): always at least one piece, empty pieces kept
RECURSIVE SplitFrom(_, _, _)
SplitFrom(s, c, cur) ==
    IF Len(s) = 0 THEN <<cur>>
    ELSE IF Head(s) = c THEN <<cur>> \o SplitFrom(Tail(s), c, <<>>)
    ELSE SplitFrom(Tail(s), c, Append(cur, Head(s)))

Split(s, c) == SplitFrom(s, c, <<>>)

Contains(s, c) == \E i \in 1..Len(s) : s[i] = c

\* sep.join(pieces)
RECURSIVE Join(_, _)
Join(pieces, sep) ==
    IF Len(pieces) = 0 THEN <<>>
    ELSE IF Len(pieces) = 1 THEN pieces[1]
    ELSE pieces[1] \o sep \o Join(Tail(pieces), sep)

\* sorted(S) of a finite set of ints
RECURSIVE Sorted(_)
Sorted(S) ==
    IF S = {} THEN <<>>
    ELSE LET m == CHOOSE x \in S : \A y \in S : x <= y
         IN <<m>> \o Sorted(S \ {m})

SeqToSet(s) == {s[i] : i \in 1..Len(s)}

(***************************************************************************)
(* utils.py: ports                                                         *)
(***************************************************************************)
MAX_PORT == 65535

valid_port(port) == 0 < port /\ port < MAX_PORT + 1

\* the ports of range(first, last) when every one is valid; the loop raises
\* at the first invalid one
RangeBlock(first, last) ==
    IF \A p \in first..(last - 1) : valid_port(p)
    THEN Ok([i \in 1..(IF last > first THEN last - first ELSE 0) |-> first + i - 1])
    ELSE Raise("InvalidPortError")

\* one comma separated block of ports_to_list: the ports it appends
PortBlock(split_ports) ==
    IF Contains(split_ports, "-") THEN
        LET port_range == Split(split_ports, "-")
        IN IF ~IsIntLiteral(port_range[1]) THEN Raise("InvalidPortError")
           \* split on a dash that is present gives two pieces at least, so
           \* the IndexError branch is never taken
           ELSE IF ~IsIntLiteral(port_range[2]) THEN Raise("InvalidPortError")
           ELSE RangeBlock(StrToInt(port_range[1]), StrToInt(port_range[2]) + 1)
    ELSE IF Len(split_ports) > 0 THEN
        IF ~IsIntLiteral(split_ports) THEN Raise("InvalidPortError")
        ELSE IF valid_port(StrToInt(split_ports)) THEN Ok(<<StrToInt(split_ports)>>)
        ELSE Raise("InvalidPortError")
    ELSE Ok(<<>>)

RECURSIVE PortBlocks(_, _)
PortBlocks(blocks, port_list) ==
    IF Len(blocks) = 0 THEN Ok(port_list)
    ELSE LET b == PortBlock(Head(blocks))
         IN IF b.err # "" THEN b
            ELSE PortBlocks(Tail(blocks), port_list \o b.val)

ports_to_list(ports) ==
    LET ports_string == RemoveChar(ports, " ")
        r == PortBlocks(Split(ports_string, ","), <<>>)
    IN IF r.err # "" THEN r ELSE Ok(Sorted(SeqToSet(r.val)))

\* extend_port_list: the set behind list(set(new_port_list)), whose order
\* Python leaves to the hash table
RECURSIVE ExtendLoop(_, _)
ExtendLoop(port_list, acc) ==
    IF Len(port_list) = 0 THEN Ok(acc)
    ELSE LET r == ports_to_list(IntToStr(Head(port_list)))
         IN IF r.err # "" THEN r
            ELSE ExtendLoop(Tail(port_list), acc \cup SeqToSet(r.val))

extend_port_list(port_list) == ExtendLoop(port_list, {})

\* RunEnd with the inner while never entered
RunEnd_OneStep(sorted_ports, i, last_port) == [i |-> i, last_port |-> last_port]

\* the inner while of ports_to_str: the last port of the run starting at i
RECURSIVE RunEnd(_, _, _)
RunEnd(sorted_ports, i, last_port) ==
    IF i <= Len(sorted_ports) /\ sorted_ports[i] = last_port + 1
    THEN RunEnd(sorted_ports, i + 1, sorted_ports[i])
    ELSE [i |-> i, last_port |-> last_port]

\* RenderLoop without the comma that closes a range
RECURSIVE RenderLoop_NoComma(_, _, _, _)
RenderLoop_NoComma(sorted_ports, i, last_port, port_string) ==
    IF ~(i <= Len(sorted_ports)) THEN port_string
    ELSE IF sorted_ports[i] # last_port + 1 THEN
        LET s1 == port_string \o IntToStr(sorted_ports[i])
            s2 == IF i # Len(sorted_ports) /\ sorted_ports[i + 1] # sorted_ports[i] + 1
                  THEN s1 \o <<",">> ELSE s1
        IN RenderLoop_NoComma(sorted_ports, i + 1, sorted_ports[i], s2)
    ELSE
        LET e == RunEnd(sorted_ports, i + 1, sorted_ports[i])
            s1 == port_string \o <<"-">> \o IntToStr(e.last_port)
        IN RenderLoop_NoComma(sorted_ports, e.i, e.last_port, s1)

\* the outer while of ports_to_str; i is 1-based here
RECURSIVE RenderLoop(_, _, _, _)
RenderLoop(sorted_ports, i, last_port, port_string) ==
    IF ~(i <= Len(sorted_ports)) THEN port_string
    ELSE IF sorted_ports[i] # last_port + 1 THEN
        LET s1 == port_string \o IntToStr(sorted_ports[i])
            s2 == IF i # Len(sorted_ports) /\ sorted_ports[i + 1] # sorted_ports[i] + 1
                  THEN s1 \o <<",">> ELSE s1
        IN RenderLoop(sorted_ports, i + 1, sorted_ports[i], s2)
    ELSE
        LET e == RunEnd(sorted_ports, i + 1, sorted_ports[i])
            s1 == port_string \o <<"-">> \o IntToStr(e.last_port)
            s2 == IF e.i # Len(sorted_ports) + 1 THEN s1 \o <<",">> ELSE s1
        IN RenderLoop(sorted_ports, e.i, e.last_port, s2)

ports_to_str(port_list) ==
    LET new_port_list == extend_port_list(port_list)
    IN IF new_port_list.err # "" THEN new_port_list
       ELSE IF ~(\A p \in new_port_list.val : valid_port(p)) THEN Raise("InvalidPortError")
       ELSE Ok(RenderLoop(Sorted(new_port_list.val), 1, -2, <<>>))

(***************************************************************************)
(* utils.py: addresses                                                     *)
(***************************************************************************)
\* one alternative of _BASE_IP_REGEX: 0..255 in decimal, no leading zero
OctetMatches(piece) ==
    /\ IsIntLiteral(piece)
    /\ Len(piece) <= 3
    /\ (Len(piece) = 1 \/ piece[1] # "0")
    /\ StrToInt(piece) <= 255

\* _SINGLE_IP_ADDRESS_REGEX.fullmatch
valid_ip(ip_address) ==
    LET pieces == Split(ip_address, ".")
    IN Len(pieces) = 4 /\ \A i \in 1..4 : OctetMatches(pieces[i])

\* list(map(int, ip.split('.')))
SplitIp(ip) == LET pieces == Split(ip, ".") IN [i \in 1..Len(pieces) |-> StrToInt(pieces[i])]

\* '.'.join(map(str, octets))
JoinIp(octets) == Join([i \in 1..Len(octets) |-> IntToStr(octets[i])], <<".">>)

Pow2(n) == 2 ^ n

\* struct.unpack('>I', socket.inet_aton(ip_address))[0]
inet_aton(ip_address) ==
    LET o == SplitIp(ip_address)
    IN o[1] * Pow2(24) + o[2] * Pow2(16) + o[3] * Pow2(8) + o[4]

\* socket.inet_ntoa(struct.pack('>I', ip))
inet_ntoa(ip) ==
    JoinIp(<<ip \div Pow2(24), (ip \div Pow2(16)) % 256, (ip \div Pow2(8)) % 256, ip % 256>>)

\* range(start, end) of dispatch_network: the end is not included
NetRange_Inclusive(start, end) == [i \in 1..(end - start + 1) |-> start + i - 1]

NetRange(start, end) == [i \in 1..(end - start) |-> start + i - 1]

dispatch_network(network) ==
    LET ip_address_netmask == Split(RemoveChar(network, " "), "/")
        ip_address == ip_address_netmask[1]
        cidr == StrToInt(ip_address_netmask[2])
        host_bits == 32 - cidr
        aux == inet_aton(ip_address)
        start == (aux \div Pow2(host_bits)) * Pow2(host_bits)
        \* start | ((1 << host_bits) - 1): the low host_bits bits of start are 0
        end == start + (Pow2(host_bits) - 1)
        r == NetRange(start, end)
        ip_addresses == [i \in 1..Len(r) |-> inet_ntoa(r[i])]
    IN IF Len(ip_address_netmask) # 2 THEN Raise("MalformedIpAddressError")
       ELSE IF ~IsIntLiteral(ip_address_netmask[2]) THEN Raise("MalformedIpAddressError")
       ELSE IF ~(0 <= cidr /\ cidr <= 32) THEN Raise("MalformedIpAddressError")
       ELSE IF ~valid_ip(ip_address) THEN Raise("MalformedIpAddressError")
       ELSE Ok(IF Len(ip_addresses) = 0 THEN <<>> ELSE Tail(ip_addresses))

\* one octet of the for loop of ip_range; i is 1-based here
Carry(ip, i) == IF ip[i] = 256 THEN [ip EXCEPT ![i] = 0, ![i - 1] = @ + 1] ELSE ip

\* the loop body of ip_range with the carry loop stopping after the last octet
IpRangeBody_NoCarryUp(ip) == Carry([ip EXCEPT ![4] = @ + 1], 4)

\* the loop body of ip_range: the octets after one pass
IpRangeBody(ip) == Carry(Carry(Carry([ip EXCEPT ![4] = @ + 1], 4), 3), 2)

(***************************************************************************)
(* ports.py: _PortAbstraction                                              *)
(***************************************************************************)
\* Python values given as arguments, tagged with their type
PyStr(chars) == [t |-> "str", s |-> chars, n |-> 0, l |-> <<>>]
PyInt(i) == [t |-> "int", s |-> <<>>, n |-> i, l |-> <<>>]
PyList(ports) == [t |-> "list", s |-> <<>>, n |-> 0, l |-> ports]
PyNone == [t |-> "NoneType", s |-> <<>>, n |-> 0, l |-> <<>>]

\* an attribute that holds None or a value: <<>> is None, <<x>> is x
NoneOf == <<>>
Some(x) == <<x>>

\* bool(x)
Truthy(x) ==
    CASE x.t = "str" -> Len(x.s) > 0
      [] x.t = "int" -> x.n # 0
      [] x.t = "list" -> Len(x.l) > 0
      [] OTHER -> FALSE

\* s.strip() of a string whose only blanks are spaces
RECURSIVE LStrip(_)
LStrip(s) == IF Len(s) > 0 /\ Head(s) = " " THEN LStrip(Tail(s)) ELSE s

RECURSIVE RStrip(_)
RStrip(s) ==
    IF Len(s) > 0 /\ s[Len(s)] = " " THEN RStrip(SubSeq(s, 1, Len(s) - 1)) ELSE s

Strip(s) == RStrip(LStrip(s))

\* _PortAbstraction.__init__
NewPortAbstraction ==
    [_tcp_ports |-> NoneOf, _udp_ports |-> NoneOf, _top_ports |-> NoneOf,
     _malleable_ports |-> NoneOf,
     _has_added_tcp |-> FALSE, _has_added_udp |-> FALSE,
     _has_added_top_ports |-> FALSE, _has_added_malleable |-> FALSE]

_parse_port_range(port_range) ==
    IF port_range.t = "str" THEN
        LET stripped == Strip(port_range.s)
        IN IF stripped = <<"a", "l", "l">> \/ stripped = <<"*">> THEN Ok(<<"-">>)
           ELSE IF ports_to_list(stripped).err # "" THEN ports_to_list(stripped)
           ELSE Ok(stripped)
    ELSE IF port_range.t = "list" THEN ports_to_str(port_range.l)
    ELSE Raise("TypeError")

\* The methods return [err, self]: the exception raised, if any, and the
\* instance after the call.

\* tcp without the test of _has_added_top_ports
tcp_NoTopCheck(self, port_range) ==
    IF self._has_added_tcp THEN [err |-> "InvalidPortError", self |-> self]
    ELSE IF Truthy(port_range) THEN
        LET parsed == _parse_port_range(port_range)
        IN IF parsed.err # "" THEN [err |-> parsed.err, self |-> self]
           ELSE [err |-> "",
                 self |-> [self EXCEPT !._tcp_ports = Some(parsed.val), !._has_added_tcp = TRUE]]
    ELSE [err |-> "", self |-> [self EXCEPT !._has_added_tcp = TRUE]]

tcp(self, port_range) ==
    IF self._has_added_tcp THEN [err |-> "InvalidPortError", self |-> self]
    ELSE IF self._has_added_top_ports THEN [err |-> "InvalidPortError", self |-> self]
    ELSE IF Truthy(port_range) THEN
        LET parsed == _parse_port_range(port_range)
        IN IF parsed.err # "" THEN [err |-> parsed.err, self |-> self]
           ELSE [err |-> "",
                 self |-> [self EXCEPT !._tcp_ports = Some(parsed.val), !._has_added_tcp = TRUE]]
    ELSE [err |-> "", self |-> [self EXCEPT !._has_added_tcp = TRUE]]

udp(self, port_range) ==
    IF self._has_added_udp THEN [err |-> "InvalidPortError", self |-> self]
    ELSE IF self._has_added_top_ports THEN [err |-> "InvalidPortError", self |-> self]
    ELSE IF Truthy(port_range) THEN
        LET parsed == _parse_port_range(port_range)
        IN IF parsed.err # "" THEN [err |-> parsed.err, self |-> self]
           ELSE [err |-> "",
                 self |-> [self EXCEPT !._udp_ports = Some(parsed.val), !._has_added_udp = TRUE]]
    ELSE [err |-> "", self |-> [self EXCEPT !._has_added_udp = TRUE]]

\* int(num_ports) inside top_ports: ValueError becomes InvalidPortError, a
\* TypeError is not caught
TopPortsInt(num_ports) ==
    CASE num_ports.t = "int" -> Ok(num_ports.n)
      [] num_ports.t = "str" ->
            IF IsIntLiteral(Strip(num_ports.s)) THEN Ok(StrToInt(Strip(num_ports.s)))
            ELSE Raise("InvalidPortError")
      [] OTHER -> Raise("TypeError")

top_ports(self, num_ports) ==
    IF self._has_added_tcp \/ self._has_added_udp
    THEN [err |-> "InvalidPortError", self |-> self]
    ELSE LET n == TopPortsInt(num_ports)
         IN IF n.err # "" THEN [err |-> n.err, self |-> self]
            ELSE IF ~(1 <= n.val /\ n.val <= 65535)
            THEN [err |-> "InvalidPortError", self |-> self]
            ELSE [err |-> "",
                  self |-> [self EXCEPT !._top_ports = Some(n.val), !._has_added_top_ports = TRUE]]

\* a stored port string is truthy when it is not None and not empty
Stored(x) == x # NoneOf /\ Len(x[1]) > 0

TopPortsFlag == <<"-", "-", "t", "o", "p", "-", "p", "o", "r", "t", "s", " ">>

to_nmap_syntax(self) ==
    IF self._has_added_malleable THEN self._malleable_ports
    ELSE IF self._top_ports # NoneOf /\ self._top_ports[1] # 0
    THEN Some(TopPortsFlag \o IntToStr(self._top_ports[1]))
    ELSE IF Stored(self._tcp_ports) \/ Stored(self._udp_ports) THEN
        Some((IF Stored(self._tcp_ports) THEN <<"T", ":">> \o self._tcp_ports[1] ELSE <<>>)
             \o (IF Stored(self._udp_ports) THEN <<"U", ":">> \o self._udp_ports[1] ELSE <<>>))
    ELSE NoneOf

\* no port selection is in use
SelIdle ==
    /\ sel = NewPortAbstraction
    /\ sel_last = [op |-> "", arg |-> PyNone, err |-> "", before |-> NewPortAbstraction]
    /\ sel_syntax = NoneOf

(***************************************************************************)
(* elements.py: Host, Port, Service                                        *)
(***************************************************************************)
\* A dict is the sequence of its items [k, v] in insertion order.
EmptyDict == <<>>

\* k in d
DictHas(d, k) == \E i \in 1..Len(d) : d[i].k = k

\* d[k], for k in d
DictGet(d, k) == d[CHOOSE i \in 1..Len(d) : d[i].k = k].v

\* d[k] = v
DictSet(d, k, v) ==
    IF DictHas(d, k)
    THEN [i \in 1..Len(d) |-> IF d[i].k = k THEN [k |-> k, v |-> v] ELSE d[i]]
    ELSE Append(d, [k |-> k, v |-> v])

DictKeys(d) == {d[i].k : i \in 1..Len(d)}

\* Host(**host_info): the attributes the scripts and the result set use
NewHost(state, ipv4, ipv6, hostnames) ==
    [state |-> state, ipv4 |-> ipv4, ipv6 |-> ipv6, _hostnames |-> hostnames,
     _ports |-> <<>>, _scripts |-> EmptyDict]

\* Port(**port_info)
NewPort(protocol, number, state) ==
    [protocol |-> protocol, number |-> number, state |-> state, _service |-> NoneOf]

\* Service(**service_info)
NewService(name, port) == [name |-> name, port |-> port, _scripts |-> EmptyDict]

\* Host._add_script: stores unconditionally
Host_add_script(self, script_name, script_output) ==
    [err |-> "", self |-> [self EXCEPT !._scripts = DictSet(@, script_name, script_output)]]

\* Service._add_script without the membership test
Service_add_script_Overwrite(self, script_name, script_output) ==
    [err |-> "", self |-> [self EXCEPT !._scripts = DictSet(@, script_name, script_output)]]

\* Service._add_script
Service_add_script(self, script_name, script_output) ==
    IF DictHas(self._scripts, script_name) THEN [err |-> "RuntimeError", self |-> self]
    ELSE [err |-> "",
          self |-> [self EXCEPT !._scripts = DictSet(@, script_name, script_output)]]

\* Port._add_service
Port_add_service(self, service) == [self EXCEPT !._service = Some(service)]

\* Host._add_port
Host_add_port(self, port) == [self EXCEPT !._ports = Append(@, port)]

\* Host.ip
HostIp(self) == IF self.ipv4 # NoneOf THEN self.ipv4 ELSE self.ipv6

\* no element graph is in use
ElIdle ==
    /\ el_host = NewHost("", NoneOf, NoneOf, <<>>)
    /\ el_last = [op |-> "", port |-> 0, name |-> <<>>, output |-> <<>>, err |-> "",
                  before |-> NewHost("", NoneOf, NoneOf, <<>>)]

(***************************************************************************)
(* parser.py: XMLParser._parse                                             *)
(***************************************************************************)
\* A report is [finished, hosts, host]: whether the <finished> and <hosts>
\* elements are there, and the <host> elements in document order.
\* A <host> element is [times, status, address, hostnames, ports,
\* hostscript]: whether it has the starttime and endtime attributes, the
\* state of its <status> (None when the element is missing), its <address>
\* elements [addrtype, addr], its <hostname> elements [name, type], its
\* <port> elements and the <script> elements [id, output] of its
\* <hostscript>.
\* A <port> element is [protocol, portid, state, service, script]: the state
\* of its <state> (None when missing), its <service> (None when missing) as
\* [name, conf] with conf telling whether the attribute is there, and its
\* <script> elements.

\* the loop over the <script> elements of a port with a service
RECURSIVE ParseServiceScripts(_, _)
ParseServiceScripts(service_instance, scripts) ==
    IF scripts = <<>> THEN [err |-> "", self |-> service_instance]
    ELSE LET r == Service_add_script(service_instance, Head(scripts).id, Head(scripts).output)
         IN IF r.err # "" THEN r ELSE ParseServiceScripts(r.self, Tail(scripts))

\* one iteration of the loop over the <port> elements: the Port it builds
ParsePortElem(port) ==
    IF port.state = NoneOf THEN [err |-> "XMLParsingError", self |-> NewPort("", 0, "")]
    ELSE LET port_instance == NewPort(port.protocol, port.portid, port.state[1])
         IN IF port.service = NoneOf THEN [err |-> "", self |-> port_instance]
            ELSE IF ~port.service[1].conf
            THEN \* Service.conf = float(None)
                 [err |-> "TypeError", self |-> port_instance]
            ELSE LET r == ParseServiceScripts(NewService(port.service[1].name, port.portid),
                                              port.script)
                 IN IF r.err # "" THEN [err |-> r.err, self |-> port_instance]
                    ELSE [err |-> "", self |-> Port_add_service(port_instance, r.self)]

RECURSIVE ParsePorts(_, _)
ParsePorts(host_instance, ports) ==
    IF ports = <<>> THEN [err |-> "", self |-> host_instance]
    ELSE LET r == ParsePortElem(Head(ports))
         IN IF r.err # "" THEN [err |-> r.err, self |-> host_instance]
            ELSE ParsePorts(Host_add_port(host_instance, r.self), Tail(ports))

\* the loop over the <address> elements: the last of each type is kept
RECURSIVE LastAddr(_, _)
LastAddr(address_items, addrtype) ==
    IF address_items = <<>> THEN NoneOf
    ELSE IF address_items[Len(address_items)].addrtype = addrtype
    THEN Some(address_items[Len(address_items)].addr)
    ELSE LastAddr(SubSeq(address_items, 1, Len(address_items) - 1), addrtype)

\* the loop over the <hostname> elements
RECURSIVE ParseHostnames(_, _)
ParseHostnames(d, hostnames) ==
    IF hostnames = <<>> THEN d
    ELSE ParseHostnames(DictSet(d, Head(hostnames).name, Head(hostnames).type), Tail(hostnames))

\* the loop over the <script> elements of <hostscript>
RECURSIVE ParseHostScripts(_, _)
ParseHostScripts(host_instance, scripts) ==
    IF scripts = <<>> THEN host_instance
    ELSE ParseHostScripts(
             Host_add_script(host_instance, Head(scripts).id, Head(scripts).output).self,
             Tail(scripts))

FailedHost(e) == [err |-> e, self |-> NewHost("", NoneOf, NoneOf, EmptyDict)]

\* one iteration of the loop over the <host> elements: the Host it builds
ParseHostElem(host) ==
    IF ~host.times THEN FailedHost("KeyError")
    ELSE IF host.status = NoneOf THEN FailedHost("XMLParsingError")
    ELSE IF host.address = <<>> THEN FailedHost("XMLParsingError")
    ELSE IF LastAddr(host.address, "ipv4") = NoneOf /\ LastAddr(host.address, "ipv6") = NoneOf
    THEN FailedHost("XMLParsingError")
    ELSE LET host_instance ==
                 NewHost(host.status[1], LastAddr(host.address, "ipv4"),
                         LastAddr(host.address, "ipv6"),
                         ParseHostnames(EmptyDict, host.hostnames))
             r == ParsePorts(host_instance, host.ports)
         IN IF r.err # "" THEN FailedHost(r.err)
            ELSE [err |-> "", self |-> ParseHostScripts(r.self, host.hostscript)]

\* the whole of _parse: the exception, or the hosts of the NmapScanResult
RECURSIVE ParseHosts(_, _)
ParseHosts(hosts_so_far, host_elements) ==
    IF host_elements = <<>> THEN [err |-> "", val |-> Some(hosts_so_far)]
    ELSE LET r == ParseHostElem(Head(host_elements))
         IN IF r.err # "" THEN [err |-> r.err, val |-> NoneOf]
            ELSE ParseHosts(Append(hosts_so_far, r.self), Tail(host_elements))

_parse(report) ==
    IF ~report.finished \/ ~report.hosts THEN [err |-> "AttributeError", val |-> NoneOf]
    ELSE ParseHosts(<<>>, report.host)

EmptyReport == [finished |-> TRUE, hosts |-> TRUE, host |-> <<>>]

\* no report is being parsed
ParseIdle ==
    /\ xml_report = EmptyReport
    /\ parse_pc = "idle"
    /\ scan_result = <<>>
    /\ parse_ret = [err |-> "", val |-> NoneOf]

(***************************************************************************)
(* engine.py: NSE, and the dispatch loop of scanner.py                     *)
(***************************************************************************)
\* A callback is [kind, tag, key]: what it does when called.  "return": it
\* returns a value; "StopExecution", "ValueError": it raises that;
\* "KeyError": it raises KeyError(key).  tag tells the callbacks apart.
Func(kind, tag, key) == [kind |-> kind, tag |-> tag, key |-> key]

\* _NSEHostScript(name, func, targets), with targets as the setter stores
\* them: the string '*' or a list of addresses and names
NSEHostScript(name, func, targets) == [name |-> name, func |-> func, targets |-> targets]

\* _NSEPortScript(name, func, targets, ports, proto, states) as the setters
\* store them: ports a list or None, proto a string or None, states a list
NSEPortScript(name, func, targets, ports, proto, states) ==
    [name |-> name, func |-> func, targets |-> targets, ports |-> ports, proto |-> proto,
     states |-> states]

\* NSE.__init__ with an empty delayed registry
NewNSE ==
    [_global_parsers |-> <<>>, _parsers |-> EmptyDict, _host_scripts |-> <<>>,
     _port_scripts |-> <<>>]

\* repr(s) of a str made of printable ASCII characters
RECURSIVE ReprEscape(_, _)
ReprEscape(s, quote) ==
    IF s = <<>> THEN <<>>
    ELSE (IF Head(s) = "\\" THEN <<"\\", "\\">>
          ELSE IF Head(s) = quote THEN <<"\\", quote>>
          ELSE <<Head(s)>>) \o ReprEscape(Tail(s), quote)

Repr(s) ==
    LET quote == IF Contains(s, "'") /\ ~Contains(s, "\"") THEN "\"" ELSE "'"
    IN <<quote>> \o ReprEscape(s, quote) \o <<quote>>

\* "'{}'".format(script_name)
Quoted(script_name) == <<"'">> \o script_name \o <<"'">>

\* i.targets == '*' or host.ipv4 in i.targets
\*     or any(x for x in host.hostnames() if x in i.targets)
\* for targets that are '*' or a list
TargetsMatch(i, host) ==
    \/ i.targets = PyStr(<<"*">>)
    \/ /\ i.targets.t = "list"
       /\ \/ host.ipv4 # NoneOf /\ host.ipv4[1] \in SeqToSet(i.targets.l)
          \/ \E x \in DictKeys(host._hostnames) : x # <<>> /\ x \in SeqToSet(i.targets.l)

\* (i.proto == '*' or port.protocol == i.proto)
\*     and (i.ports == '*' or port.number in i.ports) and port.state in i.states
\* "TypeError" when the membership test is made on None
PortFilter(i, port) ==
    IF ~(i.proto = Some("*") \/ i.proto = Some(port.protocol)) THEN "no"
    ELSE IF i.ports = PyStr(<<"*">>) THEN (IF port.state \in SeqToSet(i.states) THEN "yes" ELSE "no")
    ELSE IF i.ports.t = "NoneType" THEN "TypeError"
    ELSE IF port.number \in SeqToSet(i.ports.l) /\ port.state \in SeqToSet(i.states) THEN "yes"
    ELSE "no"

\* an entry of the trace
Entry(what, name, h, p, called, outcome, key, changed) ==
    [what |-> what, name |-> name, h |-> h, p |-> p, called |-> called, outcome |-> outcome,
     key |-> key, changed |-> changed]

\* NSE._apply_host_scripts: the loop over self._host_scripts
RECURSIVE ApplyHostScriptsLoop(_, _, _, _)
ApplyHostScriptsLoop(scripts, host, h, trace) ==
    IF scripts = <<>> THEN [err |-> "", host |-> host, trace |-> trace]
    ELSE LET i == Head(scripts)
         IN IF ~TargetsMatch(i, host) THEN ApplyHostScriptsLoop(Tail(scripts), host, h, trace)
            ELSE IF i.func.kind = "return" THEN
                ApplyHostScriptsLoop(
                    Tail(scripts), Host_add_script(host, i.name, <<i.func.tag>>).self, h,
                    Append(trace, Entry("host_script", i.name, h, 0, TRUE, "stored", NoneOf, TRUE)))
            ELSE IF i.func.kind = "StopExecution" THEN
                ApplyHostScriptsLoop(
                    Tail(scripts), host, h,
                    Append(trace, Entry("host_script", i.name, h, 0, TRUE, "StopExecution",
                                        NoneOf, FALSE)))
            ELSE [err |-> i.func.kind, host |-> host,
                  trace |-> Append(trace, Entry("host_script", i.name, h, 0, TRUE, "raised",
                                                NoneOf, FALSE))]

\* the loop of _apply_host_scripts with an except clause for the exceptions
\* of caught in place of "except StopExecution"
RECURSIVE ApplyHostScriptsLoopExcept(_, _, _, _, _)
ApplyHostScriptsLoopExcept(caught, scripts, host, h, trace) ==
    IF scripts = <<>> THEN [err |-> "", host |-> host, trace |-> trace]
    ELSE LET i == Head(scripts)
         IN IF ~TargetsMatch(i, host)
            THEN ApplyHostScriptsLoopExcept(caught, Tail(scripts), host, h, trace)
            ELSE IF i.func.kind = "return" THEN
                ApplyHostScriptsLoopExcept(
                    caught, Tail(scripts), Host_add_script(host, i.name, <<i.func.tag>>).self, h,
                    Append(trace, Entry("host_script", i.name, h, 0, TRUE, "stored", NoneOf, TRUE)))
            ELSE IF i.func.kind \in caught THEN
                ApplyHostScriptsLoopExcept(
                    caught, Tail(scripts), host, h,
                    Append(trace, Entry("host_script", i.name, h, 0, TRUE, "ignored", NoneOf,
                                        FALSE)))
            ELSE [err |-> i.func.kind, host |-> host,
                  trace |-> Append(trace, Entry("host_script", i.name, h, 0, TRUE, "raised",
                                                NoneOf, FALSE))]

\* NSE._apply_host_scripts without the except clause
_apply_host_scripts_NoExcept(self, host, h, trace) ==
    ApplyHostScriptsLoopExcept({}, self._host_scripts, host, h, trace)

\* NSE._apply_host_scripts with "except Exception" in place of
\* "except StopExecution"
_apply_host_scripts_ExceptAll(self, host, h, trace) ==
    ApplyHostScriptsLoopExcept({"StopExecution", "ValueError", "KeyError"},
                               self._host_scripts, host, h, trace)

\* NSE._apply_host_scripts
_apply_host_scripts(self, host, h, trace) ==
    ApplyHostScriptsLoop(self._host_scripts, host, h, trace)

\* the except clause of the parser block: which KeyError is let through
KeyErrorIgnored(script_name, key) == Quoted(script_name) = Repr(key)

\* the parser block of the dispatch loop: the loop over engine._parsers.items()
RECURSIVE ApplyParsersLoop(_, _, _, _, _)
ApplyParsersLoop(parsers, service, h, p, trace) ==
    IF parsers = <<>> THEN [err |-> "", service |-> service, trace |-> trace]
    ELSE LET script_name == Head(parsers).k
             callback == Head(parsers).v
             held == DictHas(service._scripts, script_name)
             key == IF ~held THEN Some(script_name)
                    ELSE IF callback.kind = "KeyError" THEN Some(callback.key)
                    ELSE NoneOf
         IN IF key # NoneOf THEN
                IF KeyErrorIgnored(script_name, key[1])
                THEN ApplyParsersLoop(
                         Tail(parsers), service, h, p,
                         Append(trace, Entry("parser", script_name, h, p, held, "ignored", key,
                                             FALSE)))
                ELSE [err |-> "KeyError", service |-> service,
                      trace |-> Append(trace, Entry("parser", script_name, h, p, held, "raised",
                                                    key, FALSE))]
            ELSE IF callback.kind = "return" THEN
                ApplyParsersLoop(
                    Tail(parsers),
                    [service EXCEPT !._scripts =
                         DictSet(@, script_name, Append(DictGet(@, script_name), callback.tag))],
                    h, p,
                    Append(trace, Entry("parser", script_name, h, p, TRUE, "stored", NoneOf, TRUE)))
            ELSE [err |-> callback.kind, service |-> service,
                  trace |-> Append(trace, Entry("parser", script_name, h, p, TRUE, "raised",
                                                NoneOf, FALSE))]

\* NSE._apply_port_scripts: the loop over self._port_scripts; service is
\* None or a Service
RECURSIVE ApplyPortScriptsLoop(_, _, _, _, _, _, _)
ApplyPortScriptsLoop(scripts, host, port, service, h, p, trace) ==
    IF scripts = <<>> THEN [err |-> "", service |-> service, trace |-> trace]
    ELSE LET i == Head(scripts)
             filter == IF TargetsMatch(i, host) THEN PortFilter(i, port) ELSE "no"
         IN IF filter = "no"
            THEN ApplyPortScriptsLoop(Tail(scripts), host, port, service, h, p, trace)
            ELSE IF filter = "TypeError"
            THEN [err |-> "TypeError", service |-> service, trace |-> trace]
            ELSE IF service = NoneOf
            THEN \* service._add_script is looked up before the callback is called
                 [err |-> "AttributeError", service |-> service,
                  trace |-> Append(trace, Entry("port_script", i.name, h, p, FALSE, "raised",
                                                NoneOf, FALSE))]
            ELSE IF i.func.kind = "return" THEN
                LET r == Service_add_script(service[1], i.name, <<i.func.tag>>)
                IN IF r.err # ""
                   THEN [err |-> r.err, service |-> service,
                         trace |-> Append(trace, Entry("port_script", i.name, h, p, TRUE,
                                                       "raised", NoneOf, FALSE))]
                   ELSE ApplyPortScriptsLoop(
                            Tail(scripts), host, port, Some(r.self), h, p,
                            Append(trace, Entry("port_script", i.name, h, p, TRUE, "stored",
                                                NoneOf, TRUE)))
            ELSE IF i.func.kind = "StopExecution" THEN
                ApplyPortScriptsLoop(
                    Tail(scripts), host, port, service, h, p,
                    Append(trace, Entry("port_script", i.name, h, p, TRUE, "StopExecution",
                                        NoneOf, FALSE)))
            ELSE [err |-> i.func.kind, service |-> service,
                  trace |-> Append(trace, Entry("port_script", i.name, h, p, TRUE, "raised",
                                                NoneOf, FALSE))]

_apply_port_scripts(self, host, port, service, h, p, trace) ==
    ApplyPortScriptsLoop(self._port_scripts, host, port, service, h, p, trace)

(***************************************************************************)
(* engine.py: registration                                                 *)
(***************************************************************************)
\* callable(v): a value that is not callable is a Func of kind "notcallable"
Callable(v) == v.kind # "notcallable"

\* _IP_ADDRESS_WITH_CIDR_REGEX.fullmatch
IsCidr(split_target) ==
    LET pieces == Split(split_target, "/")
    IN /\ Len(pieces) = 2
       /\ valid_ip(pieces[1])
       /\ IsIntLiteral(pieces[2])
       /\ \/ Len(pieces[2]) = 1
          \/ Len(pieces[2]) = 2 /\ pieces[2][1] \in {"1", "2"}
          \/ Len(pieces[2]) = 2 /\ pieces[2][1] = "3" /\ pieces[2][2] \in {"0", "1", "2"}

\* the items of a sequence without repetition
RECURSIVE Dedupe(_, _)
Dedupe(items, acc) ==
    IF items = <<>> THEN acc
    ELSE Dedupe(Tail(items), IF Head(items) \in SeqToSet(acc) THEN acc ELSE Append(acc, Head(items)))

\* the loop of targets_to_list over the pieces between blanks, for pieces
\* that are a network with a mask, a single address or a name
RECURSIVE TargetsLoop(_, _)
TargetsLoop(pieces, target_list) ==
    IF pieces = <<>> THEN target_list
    ELSE IF Head(pieces) = <<>> THEN TargetsLoop(Tail(pieces), target_list)
    ELSE IF IsCidr(Head(pieces))
    THEN TargetsLoop(Tail(pieces), target_list \o dispatch_network(Head(pieces)).val)
    ELSE TargetsLoop(Tail(pieces), Append(target_list, Head(pieces)))

\* targets_to_list: list(set(target_list)), whose order Python leaves to the
\* hash table; the engine only tests membership
targets_to_list(targets) == Dedupe(TargetsLoop(Split(targets, " "), <<>>), <<>>)

\* the loop of the targets setter over a list of strings
RECURSIVE TargetsOfList(_)
TargetsOfList(v) ==
    IF v = <<>> THEN <<>> ELSE targets_to_list(Head(v)) \o TargetsOfList(Tail(v))

\* _NSEHostScript.targets setter
SetTargets(v) ==
    IF v.t = "list" THEN Ok(PyList(TargetsOfList(v.l)))
    ELSE IF v.t = "str"
    THEN (IF Strip(v.s) = <<"*">> THEN Ok(v) ELSE Ok(PyList(targets_to_list(v.s))))
    ELSE Raise("EngineError")

\* the end of the ports setter: r is what ports_to_list or extend_port_list
\* gave
PortsOf(v, r) ==
    IF r.err # "" THEN r
    ELSE IF v.t = "list" THEN Ok(PyList(Sorted(r.val)))
    ELSE Ok(PyList(r.val))

\* _NSEPortScript.ports setter
SetPorts(v) ==
    IF v.t = "NoneType" THEN Ok(v)
    ELSE PortsOf(v, IF v.t = "int" THEN ports_to_list(IntToStr(v.n))
                    ELSE IF v.t = "str" THEN ports_to_list(v.s)
                    ELSE extend_port_list(v.l))

\* v.lower() of the protocol words
Lower(v) == CASE v = "TCP" -> "tcp" [] v = "UDP" -> "udp" [] OTHER -> v

\* _NSEPortScript.proto setter
SetProto(v) ==
    IF v = NoneOf THEN Ok(NoneOf)
    ELSE IF Lower(v[1]) \in {"tcp", "udp", "*"} THEN Ok(Some(Lower(v[1])))
    ELSE Raise("EngineError")

\* _NSEPortScript.states setter
SetStates(v) ==
    IF v = NoneOf THEN Ok(<<"open">>)
    ELSE IF ~(\A x \in SeqToSet(v[1]) : x \in {"open", "closed", "filtered"})
    THEN Raise("EngineError")
    ELSE Ok(v[1])

NoHostScript == NSEHostScript(<<>>, Func("notcallable", "", <<>>), PyNone)
NoPortScript == NSEPortScript(<<>>, Func("notcallable", "", <<>>), PyNone, PyNone, NoneOf, <<>>)

\* the object _NSEHostScript.__init__ leaves: t is what the targets setter gave
HostScriptOf(name, func, t) ==
    IF ~Callable(func) THEN [err |-> "EngineError", val |-> NoHostScript]
    ELSE IF t.err # "" THEN [err |-> t.err, val |-> NoHostScript]
    ELSE [err |-> "", val |-> NSEHostScript(name, func, t.val)]

\* _NSEHostScript.__init__: the setters in order
NewHostScript(name, func, targets) == HostScriptOf(name, func, SetTargets(targets))

\* the object _NSEPortScript.__init__ leaves: t, p, pr and st are what the
\* setters of targets, ports, proto and states gave
PortScriptOf(name, func, t, p, pr, st) ==
    IF ~Callable(func) THEN [err |-> "EngineError", val |-> NoPortScript]
    ELSE IF t.err # "" THEN [err |-> t.err, val |-> NoPortScript]
    ELSE IF p.err # "" THEN [err |-> p.err, val |-> NoPortScript]
    ELSE IF pr.err # "" THEN [err |-> pr.err, val |-> NoPortScript]
    ELSE IF st.err # "" THEN [err |-> st.err, val |-> NoPortScript]
    ELSE [err |-> "", val |-> NSEPortScript(name, func, t.val, p.val, pr.val, st.val)]

\* _NSEPortScript.__init__: the setters in order
NewPortScript(name, func, targets, ports, proto, states) ==
    PortScriptOf(name, func, SetTargets(targets), SetPorts(ports), SetProto(proto),
                 SetStates(states))

\* self._port_scripts.append(r) unless the construction of r raised
AppendPortScript(self, r) ==
    IF r.err # "" THEN [err |-> r.err, self |-> self]
    ELSE [err |-> "", self |-> [self EXCEPT !._port_scripts = Append(@, r.val)]]

\* self._host_scripts.append(r) unless the construction of r raised
AppendHostScript(self, r) ==
    IF r.err # "" THEN [err |-> r.err, self |-> self]
    ELSE [err |-> "", self |-> [self EXCEPT !._host_scripts = Append(@, r.val)]]

\* NSE.add_port_script
add_port_script(self, func, name, port, targets, proto, states) ==
    AppendPortScript(self, NewPortScript(name, func, targets, port, proto, states))

\* NSE.add_host_script
add_host_script(self, func, name, targets) ==
    AppendHostScript(self, NewHostScript(name, func, targets))

\* NSE.add_global_parser
add_global_parser(self, callback) ==
    [err |-> "", self |-> [self EXCEPT !._global_parsers = Append(@, callback)]]

\* NSE.add_parser
add_parser(self, callback, script_name) ==
    IF DictHas(self._parsers, script_name) THEN [err |-> "EngineError", self |-> self]
    ELSE [err |-> "", self |-> [self EXCEPT !._parsers = DictSet(@, script_name, callback)]]

\* NSE.port_script(name, ports, targets, proto, states)(f)
port_script(self, name, ports, targets, proto, states, f) ==
    add_port_script(self, f, name, ports, targets, proto,
                    IF states = NoneOf \/ states = Some(<<>>) THEN Some(<<"open">>) ELSE states)

\* an item of the delayed registry of a subclass of NSE: the object a module
\* decorator leaves on the decorated method
Delayed(cls, script_name, func, targets, ports, proto, states) ==
    [cls |-> cls, script_name |-> script_name, func |-> func, targets |-> targets,
     ports |-> ports, proto |-> proto, states |-> states]

\* the registry item of a host script
DelayedHostScript(i) ==
    Delayed("_NSEHostScript", i.name, i.func, i.targets, PyNone, NoneOf, <<>>)

\* the registry item of a port script
DelayedPortScript(i) ==
    Delayed("_NSEPortScript", i.name, i.func, i.targets, i.ports, i.proto, i.states)

\* the module decorator host_script(name, targets)(f)
module_host_script(name, targets, f) == DelayedHostScript(NewHostScript(name, f, targets).val)

\* the module decorator port_script(name, ports, targets, proto, states)(f)
module_port_script(name, ports, targets, proto, states, f) ==
    DelayedPortScript(NewPortScript(name, f, targets, ports, proto, states).val)

\* the module decorator parser(script_name)(f)
module_parser(script_name, f) ==
    Delayed("_DelayedParserAbstraction", script_name, f, PyNone, PyNone, NoneOf, <<>>)

\* NSE.__init__: the loop over self._delayed_registry, a set, taken in the
\* order given
RECURSIVE InitLoop(_, _)
InitLoop(self, registry) ==
    IF registry = <<>> THEN self
    ELSE LET i == Head(registry)
         IN IF i.cls = "_NSEPortScript"
            THEN InitLoop([self EXCEPT !._port_scripts =
                               Append(@, NSEPortScript(i.script_name, i.func, i.targets,
                                                       i.ports, i.proto, i.states))],
                          Tail(registry))
            ELSE IF i.cls = "_NSEHostScript"
            THEN InitLoop([self EXCEPT !._host_scripts =
                               Append(@, NSEHostScript(i.script_name, i.func, i.targets))],
                          Tail(registry))
            ELSE InitLoop([self EXCEPT !._parsers = DictSet(@, i.script_name, i.func)],
                          Tail(registry))

(***************************************************************************)
(* results.py: NmapScanResult.__getitem__                                  *)
(***************************************************************************)
\* the pieces of v.split() for a string whose only blanks are spaces
NonEmpty(pieces) == LET Test(x) == x # <<>> IN SelectSeq(pieces, Test)

\* the list v is turned into: the pieces of a string with a space in it, the
\* stripped string alone, or the tuple as it is
Selectors(v) ==
    IF v.t = "str"
    THEN (IF Contains(Strip(v.s), " ") THEN NonEmpty(Split(Strip(v.s), " "))
          ELSE <<Strip(v.s)>>)
    ELSE v.l

\* ips after the body of "for i in v" for one i that is an address, a network
\* with a mask or a name
IpsOf(i) ==
    IF valid_ip(i) THEN <<i>>
    ELSE IF IsCidr(i) THEN dispatch_network(i).val
    ELSE <<>>

\* hostnames after the body of "for i in v" for that i
HostnamesOf(i) == IF valid_ip(i) \/ IsCidr(i) THEN <<>> ELSE <<i>>

\* host.ipv4 in ips or [i for i in host.hostnames() if i in hostnames]
HostSelected(host, ips, hostnames) ==
    \/ host.ipv4 # NoneOf /\ host.ipv4[1] \in SeqToSet(ips)
    \/ \E x \in DictKeys(host._hostnames) : x \in SeqToSet(hostnames)

\* to_return[0], or None on IndexError
FirstOrNone(to_return) == IF to_return = <<>> THEN NoneOf ELSE Some(to_return[1])

\* the loop over self._hosts and the return: a list when multi_return, else
\* the first host selected or None
GetItemReturn(hosts, multi_return, ips, hostnames) ==
    LET Test(host) == HostSelected(host, ips, hostnames)
        to_return == SelectSeq(hosts, Test)
    IN IF multi_return THEN [err |-> "", multi |-> TRUE, hosts |-> to_return]
       ELSE [err |-> "", multi |-> FALSE, hosts |-> FirstOrNone(to_return)]

\* NmapScanResult.__getitem__ for a str or a tuple of str: ips and hostnames
\* are set anew in each pass of "for i in v", so the loop over the hosts sees
\* those of the last i; with no i at all they are unbound
getitem(hosts, v) ==
    IF Selectors(v) = <<>>
    THEN (IF hosts = <<>> THEN [err |-> "", multi |-> FALSE, hosts |-> <<>>]
          ELSE [err |-> "UnboundLocalError", multi |-> FALSE, hosts |-> <<>>])
    ELSE GetItemReturn(hosts, Len(Selectors(v)) > 1,
                       IpsOf(Selectors(v)[Len(Selectors(v))]),
                       HostnamesOf(Selectors(v)[Len(Selectors(v))]))

\* no result is being indexed
IdxIdle ==
    /\ idx_hosts = <<>>
    /\ idx_last = [v |-> PyNone, ret |-> [err |-> "", multi |-> FALSE, hosts |-> <<>>]]

(***************************************************************************)
(* NmapAsyncScanner: the scanner over a live child process                 *)
(***************************************************************************)
\* 256, the size of the read of get_status, scaled down
ChunkSize == 2

Min(a, b) == IF a < b THEN a ELSE b
Take(s, n) == SubSeq(s, 1, Min(n, Len(s)))
Drop(s, n) == SubSeq(s, Min(n, Len(s)) + 1, Len(s))

\* a buffer: None, bytes or str, with the characters it holds
Buf(t, d) == [t |-> t, d |-> d]
NoBuf == Buf("NoneType", <<>>)
Bytes(d) == Buf("bytes", d)
Str(d) == Buf("str", d)
\* bytes.decode('latin-1') maps every byte to one character
Decode(b) == Str(b.d)
\* a + b on buffers: str + str only
Concat(a, b) ==
    IF a.t = "str" /\ b.t = "str" THEN [err |-> "", val |-> Str(a.d \o b.d)]
    ELSE [err |-> "TypeError", val |-> a]

\* NmapAsyncScanner.__init__; the engine, the file names and the last Status
\* take no part in the calls below
NewAsyncScanner ==
    [_nmap_process |-> NoneOf, _has_started |-> FALSE, _has_awaited |-> FALSE,
     _stored_output_buffer |-> NoBuf, _stored_error_buffer |-> NoBuf,
     _requires_file_parsing |-> FALSE, _with_status |-> FALSE,
     _retrieved_status |-> FALSE]

\* The child of subprocess.Popen(..., stdout=PIPE, stderr=PIPE): written is
\* how many characters nmap has written to stdout, pipe the ones still in the
\* pipe, rbuf the ones the buffered reader of stdout has taken from the pipe
\* and not yet handed out, collected what communicate() has gathered.  The
\* child writes nothing to stderr.
NewChild(pid) ==
    [pid |-> pid, written |-> 0, pipe |-> <<>>, rbuf |-> <<>>, exited |-> FALSE,
     closed |-> FALSE, collected |-> NoneOf]
NoChild == NewChild(0)

\* what a call returns
Ret(kind, b, src, buf) == [kind |-> kind, b |-> b, src |-> src, buf |-> buf]
RetNone == Ret("None", FALSE, "", NoBuf)

\* the outcome of a call: the exception, the instance, the child, the value
\* returned and the characters the call's read of stdout returned
Outcome(err, self, child, ret, read) ==
    [err |-> err, self |-> self, child |-> child, ret |-> ret, read |-> read]

\* Popen.communicate(): it reads the pipe itself up to end of file, past the
\* buffered reader, closes stdout and keeps what it gathered; a later call
\* returns the same characters again.
communicate(child) ==
    IF child.collected # NoneOf THEN [out |-> child.collected[1], child |-> child]
    ELSE [out |-> child.pipe,
          child |-> [child EXCEPT !.collected = Some(child.pipe), !.pipe = <<>>,
                                  !.rbuf = <<>>, !.closed = TRUE]]

\* stdout.read(256) on the buffered reader: the reader takes m characters from
\* the pipe, as many as the read needs or more, and hands out the first 256
\* of what it holds.
read_chunk(child, m) ==
    LET held == child.rbuf \o Take(child.pipe, m) IN
    IF child.closed THEN [err |-> "ValueError", out |-> <<>>, child |-> child]
    ELSE [err |-> "", out |-> Take(held, ChunkSize),
          child |-> [child EXCEPT !.rbuf = Drop(held, ChunkSize),
                                  !.pipe = Drop(child.pipe, m)]]

\* how many characters the reader may take from the pipe for one read(256)
ReadAhead(child) ==
    IF Len(child.rbuf) >= ChunkSize THEN {0}
    ELSE Min(ChunkSize - Len(child.rbuf), Len(child.pipe))..Len(child.pipe)

\* stdout.read(): everything up to end of file
read_all(child) ==
    IF child.closed THEN [err |-> "ValueError", out |-> <<>>, child |-> child]
    ELSE [err |-> "", out |-> child.rbuf \o child.pipe,
          child |-> [child EXCEPT !.rbuf = <<>>, !.pipe = <<>>]]

\* NmapAsyncScanner._execute_nmap: found is whether Popen finds the binary
_execute_nmap(self, child, found) ==
    IF found
    THEN Outcome("", [self EXCEPT !._has_started = TRUE,
                                  !._nmap_process = Some(child.pid + 1)],
                 NewChild(child.pid + 1), RetNone, <<>>)
    ELSE Outcome("NmapScanError: not found", [self EXCEPT !._has_started = TRUE], child,
                 RetNone, <<>>)

\* the instance of scan() when it reaches _execute_nmap
ScanFlags(self, with_status, output) ==
    [self EXCEPT !._has_started = TRUE,
                 !._with_status = IF with_status THEN TRUE ELSE @,
                 !._stored_output_buffer = IF with_status THEN Str(<<>>) ELSE @,
                 !._requires_file_parsing = IF output THEN TRUE ELSE @]

\* NmapAsyncScanner.scan: valid is whether _create_nmap_command accepts the
\* targets, ports and arguments
scan(self, child, valid, dry_run, with_status, output, found) ==
    IF self._has_started THEN Outcome("NmapScanError: already scanning", self, child, RetNone, <<>>)
    ELSE IF ~valid
    THEN Outcome("InvalidArgument", [self EXCEPT !._has_started = TRUE], child, RetNone, <<>>)
    ELSE IF dry_run
    THEN Outcome("", [self EXCEPT !._has_started = TRUE], child, RetNone, <<>>)
    ELSE _execute_nmap(ScanFlags(self, with_status, output), child, found)

\* NmapAsyncScanner.raw: forbidden is whether the arguments hold --resume or
\* an output option
raw(self, child, forbidden, found) ==
    IF self._has_started THEN Outcome("NmapScanError: already scanning", self, child, RetNone, <<>>)
    ELSE IF forbidden
    THEN Outcome("NmapScanError: options", [self EXCEPT !._has_started = TRUE], child,
                 RetNone, <<>>)
    ELSE _execute_nmap([self EXCEPT !._has_started = TRUE], child, found)

\* NmapAsyncScanner.resume
resume(self, child, found) ==
    IF self._has_started THEN Outcome("NmapScanError: already scanning", self, child, RetNone, <<>>)
    ELSE _execute_nmap([self EXCEPT !._requires_file_parsing = TRUE, !._has_started = TRUE],
                       child, found)

\* NmapAsyncScanner.finished
finished(self, child) ==
    IF ~self._has_started THEN Outcome("NmapScanError: not started", self, child, RetNone, <<>>)
    ELSE IF self._nmap_process = NoneOf
    THEN Outcome("AttributeError", self, child, RetNone, <<>>)
    ELSE Outcome("", self, child, Ret("bool", child.exited, "", NoBuf), <<>>)

\* the buffers get_result hands to _parse_nmap_output, and where they are from
GetResultBuffers(self, child) ==
    IF self._has_awaited
    THEN Outcome("", self, child, Ret("result", TRUE, "stored", self._stored_output_buffer),
                 <<>>)
    ELSE IF self._retrieved_status
    THEN IF read_all(child).err # ""
         THEN Outcome(read_all(child).err, self, child, RetNone, <<>>)
         ELSE IF Concat(self._stored_output_buffer, Decode(Bytes(read_all(child).out))).err # ""
         THEN Outcome("TypeError", self, read_all(child).child, RetNone, read_all(child).out)
         ELSE Outcome("", self, read_all(child).child,
                      Ret("result", TRUE, "stdout.read",
                          Concat(self._stored_output_buffer,
                                 Decode(Bytes(read_all(child).out))).val),
                      read_all(child).out)
    ELSE Outcome("", self, communicate(child).child,
                 Ret("result", TRUE, "communicate", Bytes(communicate(child).out)),
                 communicate(child).out)

\* NmapAsyncScanner.get_result
get_result(self, child) ==
    IF ~self._has_started THEN Outcome("NmapScanError: not started", self, child, RetNone, <<>>)
    ELSE IF finished(self, child).err # "" THEN finished(self, child)
    ELSE IF ~finished(self, child).ret.b THEN Outcome("", self, child, RetNone, <<>>)
    ELSE GetResultBuffers(self, child)

\* wait() storing what communicate() returned in place of what get_status read
WaitCommunicate_Overwrite(awaited, child) ==
    Outcome("", [awaited EXCEPT !._stored_error_buffer = Bytes(<<>>),
                                !._stored_output_buffer = Decode(Bytes(communicate(child).out))],
            communicate(child).child, RetNone,
            communicate(child).out)

\* NmapAsyncScanner.wait, from the communicate() call on: awaited is the
\* instance with _has_awaited set
WaitCommunicate(awaited, child) ==
    IF awaited._retrieved_status
    THEN IF Concat(awaited._stored_output_buffer, Decode(Bytes(communicate(child).out))).err # ""
         THEN Outcome("TypeError", [awaited EXCEPT !._stored_error_buffer = Bytes(<<>>)],
                      communicate(child).child, RetNone,
                      communicate(child).out)
         ELSE Outcome("", [awaited EXCEPT
                             !._stored_error_buffer = Bytes(<<>>),
                             !._stored_output_buffer =
                                 Concat(@, Decode(Bytes(communicate(child).out))).val],
                      communicate(child).child, RetNone,
                      communicate(child).out)
    ELSE Outcome("", [awaited EXCEPT !._stored_error_buffer = Bytes(<<>>),
                                     !._stored_output_buffer = Bytes(communicate(child).out)],
                 communicate(child).child, RetNone,
                 communicate(child).out)

\* NmapAsyncScanner.wait
wait(self, child) ==
    IF ~self._has_started THEN Outcome("NmapScanError: not started", self, child, RetNone, <<>>)
    ELSE IF self._nmap_process = NoneOf
    THEN Outcome("AttributeError", [self EXCEPT !._has_awaited = TRUE], child, RetNone, <<>>)
    ELSE WaitCommunicate([self EXCEPT !._has_awaited = TRUE], child)

\* get_status when nmap writes to stdout: retrieved is the instance with
\* _retrieved_status set, m what the reader takes from the pipe
StatusFromPipe(retrieved, child, m) ==
    IF retrieved._nmap_process = NoneOf
    THEN Outcome("AttributeError", retrieved, child, RetNone, <<>>)
    ELSE IF read_chunk(child, m).err # ""
    THEN Outcome(read_chunk(child, m).err, retrieved, child, RetNone, <<>>)
    ELSE IF read_chunk(child, m).out = <<>>
    THEN Outcome("", retrieved, read_chunk(child, m).child,
                 Ret("Status", TRUE, "", retrieved._stored_output_buffer), <<>>)
    ELSE IF Concat(retrieved._stored_output_buffer, Decode(Bytes(read_chunk(child, m).out))).err # ""
    THEN Outcome("TypeError", retrieved, read_chunk(child, m).child, RetNone,
                 read_chunk(child, m).out)
    ELSE Outcome("",
                 [retrieved EXCEPT !._stored_output_buffer =
                      Concat(@, Decode(Bytes(read_chunk(child, m).out))).val],
                 read_chunk(child, m).child,
                 Ret("Status", TRUE, "",
                     Concat(retrieved._stored_output_buffer,
                            Decode(Bytes(read_chunk(child, m).out))).val),
                 read_chunk(child, m).out)

\* NmapAsyncScanner.get_status: file_there is whether the XML file exists
get_status(self, child, m, file_there) ==
    IF ~self._with_status THEN Outcome("NmapScanError: no status", self, child, RetNone, <<>>)
    ELSE IF self._requires_file_parsing
    THEN Outcome("", [self EXCEPT !._retrieved_status = TRUE], child,
                 IF file_there THEN Ret("Status", TRUE, "file", NoBuf) ELSE RetNone, <<>>)
    ELSE StatusFromPipe([self EXCEPT !._retrieved_status = TRUE], child, m)

\* NmapAsyncScanner.reset: _nmap_process is not among the fields it resets
reset(self, child) ==
    Outcome("", [NewAsyncScanner EXCEPT !._nmap_process = self._nmap_process], child,
            RetNone, <<>>)

\* no asynchronous scanner is in use
AsyncIdle ==
    /\ as_scanner = NewAsyncScanner
    /\ as_child = NoChild
    /\ as_read = [chunks |-> <<>>, waits |-> 0]
    /\ as_last = [op |-> "__init__", err |-> "", ret |-> RetNone, read |-> <<>>,
                  before |-> NewAsyncScanner]

\* del list[name] where name is a str: list.__delitem__ takes an integer or a
\* slice, so the statement raises TypeError whatever the list holds.
DelListItem(list, name) == [err |-> "TypeError", val |-> list]

\* NSE.delete_host_script(name, silent): only KeyError is caught.
delete_host_script(self, name, silent) ==
    LET d == DelListItem(self._host_scripts, name) IN
    IF d.err = "KeyError" /\ silent THEN [err |-> "", self |-> self]
    ELSE IF d.err # "" THEN [err |-> d.err, self |-> self]
    ELSE [err |-> "", self |-> [self EXCEPT !._host_scripts = d.val]]

\* NSE.delete_port_script(name, silent): only KeyError is caught.
delete_port_script(self, name, silent) ==
    LET d == DelListItem(self._port_scripts, name) IN
    IF d.err = "KeyError" /\ silent THEN [err |-> "", self |-> self]
    ELSE IF d.err # "" THEN [err |-> d.err, self |-> self]
    ELSE [err |-> "", self |-> [self EXCEPT !._port_scripts = d.val]]

\* no registration is in progress
RegIdle ==
    /\ reg_engine = NewNSE
    /\ reg_last = [op |-> "", args |-> <<>>, err |-> "", before |-> NewNSE]

\* no dispatch is in progress
DspIdle ==
    /\ dsp_engine = NewNSE
    /\ dsp_result = <<>>
    /\ dsp_pc = "idle"
    /\ dsp_h = 0
    /\ dsp_p = 0
    /\ dsp_trace = <<>>
    /\ dsp_err = ""

(***************************************************************************)
(* The port algebra applied to bounded inputs                              *)
(***************************************************************************)
MaxLen == 3
MaxTerms == 2

PortPool == {0, 1, 2, 3, 5, 9, 10, 65534, 65535, 65536}

SeqsUpTo(S, n) == UNION {[1..k -> S] : k \in 0..n}

PortLists == SeqsUpTo(PortPool, MaxLen)

Dash(a, b) == a \o <<"-">> \o b

TermPool ==
    {IntToStr(n) : n \in {0, 1, 3, 80, 65535, 65536}}
    \cup {Dash(IntToStr(r[1]), IntToStr(r[2])) :
             r \in {<<1, 3>>, <<3, 1>>, <<3, 3>>, <<0, 2>>, <<65534, 65536>>, <<65536, 1>>}}
    \cup {<<>>, <<"x">>, <<"1", "x">>, <<"0", "8", "0">>, <<" ", "2", " ">>,
          Dash(<<"1">>, <<>>), Dash(<<>>, <<"1">>), Dash(<<"1">>, <<"x">>),
          Dash(<<"1">>, Dash(<<"2">>, <<"3">>))}

PortStrings == {Join(t, <<",">>) : t \in SeqsUpTo(TermPool, MaxTerms) \ {<<>>}}

InitPorts ==
    /\ AddrIdle
    /\ SelIdle
    /\ ElIdle
    /\ ParseIdle
    /\ DspIdle
    /\ RegIdle
    /\ AsyncIdle
    /\ IdxIdle
    /\ pa_pc = "start"
    /\ \/ \E l \in PortLists : pa_arg = [kind |-> "list", v |-> l]
       \/ \E s \in PortStrings : pa_arg = [kind |-> "str", v |-> s]
    /\ pa_str = None
    /\ pa_list = None

\* ports_to_str(port_list)
DoPortsToStr ==
    /\ pa_pc = "start"
    /\ pa_arg.kind = "list"
    /\ pa_str' = ports_to_str(pa_arg.v)
    /\ pa_pc' = "rendered"
    /\ UNCHANGED <<pa_arg, pa_list, exceptPorts>>

\* ports_to_list(ports) of a string argument
DoPortsToList ==
    /\ pa_pc = "start"
    /\ pa_arg.kind = "str"
    /\ pa_list' = ports_to_list(pa_arg.v)
    /\ pa_pc' = "parsed"
    /\ UNCHANGED <<pa_arg, pa_str, exceptPorts>>

\* ports_to_list(ports_to_str(port_list))
DoRoundTrip ==
    /\ pa_pc = "rendered"
    /\ pa_str.err = ""
    /\ pa_list' = ports_to_list(pa_str.val)
    /\ pa_pc' = "roundtrip"
    /\ UNCHANGED <<pa_arg, pa_str, exceptPorts>>

NextPorts == DoPortsToStr \/ DoPortsToList \/ DoRoundTrip

SpecPorts == InitPorts /\ [][NextPorts]_vars

(***************************************************************************)
(* The address functions applied to bounded inputs                         *)
(***************************************************************************)
MaxHostBits == 3
MaxSpan == 3
MaxWalk == 6

\* The position of a dotted quad in numeric order, counted from 128.0.0.0
\* so that it fits TLC's signed 32-bit integers, and its inverse.
IpOrd(ip) ==
    LET o == SplitIp(ip)
    IN (o[1] - 128) * Pow2(24) + o[2] * Pow2(16) + o[3] * Pow2(8) + o[4]

OrdToIp(n) ==
    JoinIp(<<(n \div Pow2(24)) + 128, (n \div Pow2(16)) % 256, (n \div Pow2(8)) % 256, n % 256>>)

\* dispatch_network computes on the unsigned value of the address, so the
\* networks given start below 128.0.0.0
NetIpPool ==
    {JoinIp(o) : o \in {<<10, 168, 1, 0>>, <<10, 0, 0, 5>>, <<10, 0, 0, 255>>, <<0, 0, 0, 0>>,
                        <<127, 255, 255, 0>>, <<10, 1, 255, 254>>}}

NetArgs ==
    {ip \o <<"/">> \o IntToStr(c) : ip \in NetIpPool, c \in (32 - MaxHostBits)..32}
    \cup {JoinIp(<<10, 0, 0, 1>>),
          JoinIp(<<10, 0, 0, 1>>) \o <<"/", "3", "3">>,
          JoinIp(<<10, 0, 0, 1>>) \o <<"/", "x">>,
          JoinIp(<<256, 0, 0, 1>>) \o <<"/", "3", "0">>,
          <<" ">> \o JoinIp(<<10, 0, 0, 1>>) \o <<" ", "/", " ", "3", "0">>}

IpStartPool ==
    {JoinIp(o) : o \in {<<192, 168, 1, 1>>, <<192, 168, 1, 254>>, <<10, 0, 255, 254>>,
                        <<10, 255, 255, 254>>, <<255, 255, 255, 252>>, <<0, 0, 0, 0>>}}

\* pairs at most MaxSpan apart, in both orders
IpRangeArgs ==
    LET up == {<<a, OrdToIp(IpOrd(a) + k)>> : a \in IpStartPool, k \in 0..MaxSpan}
    IN up \cup {<<x[2], x[1]>> : x \in up}

InitAddr ==
    /\ PortsIdle
    /\ SelIdle
    /\ ElIdle
    /\ ParseIdle
    /\ DspIdle
    /\ RegIdle
    /\ AsyncIdle
    /\ IdxIdle
    /\ net_ret = None
    /\ split_starting_ip = None /\ split_ending_ip = None /\ ip_range_list = None
    /\ \/ /\ net_pc = "start" /\ net_arg \in NetArgs
          /\ ipr_pc = "idle" /\ ipr_arg = None
       \/ /\ ipr_pc = "start" /\ ipr_arg \in IpRangeArgs
          /\ net_pc = "idle" /\ net_arg = None

\* dispatch_network(network)
DoDispatchNetwork ==
    /\ net_pc = "start"
    /\ net_ret' = dispatch_network(net_arg)
    /\ net_pc' = "done"
    /\ UNCHANGED <<net_arg, iprVars, exceptAddr>>

\* ip_range(starting_ip, ending_ip) up to its while loop
IpRangeCall ==
    /\ ipr_pc = "start"
    /\ split_starting_ip' = SplitIp(ipr_arg[1])
    /\ split_ending_ip' = SplitIp(ipr_arg[2])
    /\ ip_range_list' = <<ipr_arg[1]>>
    /\ ipr_pc' = "loop"
    /\ UNCHANGED <<ipr_arg, netVars, exceptAddr>>

\* one pass of the while loop; the model follows at most MaxWalk passes
IpRangeIterate ==
    /\ ipr_pc = "loop"
    /\ split_starting_ip # split_ending_ip
    /\ Len(ip_range_list) <= MaxWalk
    /\ split_starting_ip' = IpRangeBody(split_starting_ip)
    /\ ip_range_list' = Append(ip_range_list, JoinIp(split_starting_ip'))
    /\ UNCHANGED <<ipr_pc, ipr_arg, split_ending_ip, netVars, exceptAddr>>

\* the while loop ends and ip_range returns
IpRangeReturn ==
    /\ ipr_pc = "loop"
    /\ split_starting_ip = split_ending_ip
    /\ ipr_pc' = "done"
    /\ UNCHANGED <<ipr_arg, split_starting_ip, split_ending_ip, ip_range_list, netVars, exceptAddr>>

NextAddr == DoDispatchNetwork \/ IpRangeCall \/ IpRangeIterate \/ IpRangeReturn

SpecAddr == InitAddr /\ [][NextAddr]_vars

(***************************************************************************)
(* One port selection under any sequence of calls                          *)
(***************************************************************************)
PortRangeArgs ==
    {PyStr(<<"8", "0">>), PyStr(<<" ", "2", "2", ",", "8", "0">>), PyStr(<<"a", "l", "l">>),
     PyStr(<<"6", "9", "9", "9", "9">>), PyStr(<<>>),
     PyInt(90), PyList(<<22, 80>>), PyList(<<>>), PyNone}

NumPortsArgs ==
    {PyInt(100), PyInt(1000), PyInt(69999), PyInt(0), PyStr(<<"1", "0", "0">>), PyStr(<<"x">>),
     PyNone}

InitSel ==
    /\ PortsIdle
    /\ AddrIdle
    /\ ElIdle
    /\ ParseIdle
    /\ DspIdle
    /\ RegIdle
    /\ AsyncIdle
    /\ IdxIdle
    /\ sel = NewPortAbstraction
    /\ sel_last = [op |-> "__init__", arg |-> PyNone, err |-> "", before |-> NewPortAbstraction]
    /\ sel_syntax = NoneOf

\* sel.tcp(port_range)
CallTcp(port_range) ==
    /\ sel' = tcp(sel, port_range).self
    /\ sel_last' = [op |-> "tcp", arg |-> port_range, err |-> tcp(sel, port_range).err,
                    before |-> sel]
    /\ UNCHANGED <<sel_syntax, exceptSel>>

\* sel.udp(port_range)
CallUdp(port_range) ==
    /\ sel' = udp(sel, port_range).self
    /\ sel_last' = [op |-> "udp", arg |-> port_range, err |-> udp(sel, port_range).err,
                    before |-> sel]
    /\ UNCHANGED <<sel_syntax, exceptSel>>

\* sel.top_ports(num_ports)
CallTopPorts(num_ports) ==
    /\ sel' = top_ports(sel, num_ports).self
    /\ sel_last' = [op |-> "top_ports", arg |-> num_ports,
                    err |-> top_ports(sel, num_ports).err, before |-> sel]
    /\ UNCHANGED <<sel_syntax, exceptSel>>

\* sel.to_nmap_syntax()
CallToNmapSyntax ==
    /\ sel_syntax' = to_nmap_syntax(sel)
    /\ sel_last' = [op |-> "to_nmap_syntax", arg |-> PyNone, err |-> "", before |-> sel]
    /\ UNCHANGED <<sel, exceptSel>>

NextSel ==
    \/ \E port_range \in PortRangeArgs : CallTcp(port_range)
    \/ \E port_range \in PortRangeArgs : CallUdp(port_range)
    \/ \E num_ports \in NumPortsArgs : CallTopPorts(num_ports)
    \/ CallToNmapSyntax

SpecSel == InitSel /\ [][NextSel]_vars

(***************************************************************************)
(* Script outputs added to one host and to the services of its ports       *)
(***************************************************************************)
\* script names and outputs
HTTP_ENUM == <<"h", "t", "t", "p", "-", "e", "n", "u", "m">>
SSL_CERT == <<"s", "s", "l", "-", "c", "e", "r", "t">>
ScriptNames == {HTTP_ENUM, SSL_CERT}
\* an output is the raw text followed by the tags of the parsers applied to it
OUT1 == <<"out1">>
OUT2 == <<"out2">>
ScriptOutputs == {OUT1, OUT2}

IP_A == <<"1", "0", ".", "0", ".", "0", ".", "1">>

\* a host with two ports, each with a service bound
TwoServiceHost ==
    Host_add_port(
        Host_add_port(NewHost("up", Some(IP_A), NoneOf, <<>>),
                      Port_add_service(NewPort("tcp", 80, "open"),
                                       NewService(<<"h", "t", "t", "p">>, 80))),
        Port_add_service(NewPort("tcp", 443, "open"),
                         NewService(<<"h", "t", "t", "p", "s">>, 443)))

InitEl ==
    /\ PortsIdle
    /\ AddrIdle
    /\ SelIdle
    /\ ParseIdle
    /\ DspIdle
    /\ RegIdle
    /\ AsyncIdle
    /\ IdxIdle
    /\ el_host = TwoServiceHost
    /\ el_last = [op |-> "__init__", port |-> 0, name |-> <<>>, output |-> <<>>, err |-> "",
                  before |-> TwoServiceHost]

\* el_host._add_script(script_name, script_output)
AddHostScript(script_name, script_output) ==
    /\ el_host' = Host_add_script(el_host, script_name, script_output).self
    /\ el_last' = [op |-> "Host._add_script", port |-> 0, name |-> script_name,
                   output |-> script_output,
                   err |-> Host_add_script(el_host, script_name, script_output).err,
                   before |-> el_host]
    /\ UNCHANGED exceptEl

\* el_host._ports[i].service._add_script(script_name, script_output)
AddServiceScript(i, script_name, script_output) ==
    LET service == el_host._ports[i]._service[1]
        r == Service_add_script(service, script_name, script_output)
    IN /\ el_host' = [el_host EXCEPT !._ports[i]._service = Some(r.self)]
       /\ el_last' = [op |-> "Service._add_script", port |-> i, name |-> script_name,
                      output |-> script_output, err |-> r.err, before |-> el_host]
       /\ UNCHANGED exceptEl

NextEl ==
    \/ \E n \in ScriptNames, o \in ScriptOutputs : AddHostScript(n, o)
    \/ \E i \in 1..Len(el_host._ports), n \in ScriptNames, o \in ScriptOutputs :
            AddServiceScript(i, n, o)

SpecEl == InitEl /\ [][NextEl]_vars

(***************************************************************************)
(* Reports given to the parser                                             *)
(***************************************************************************)
MaxHosts == 2

IP_B == <<"1", "0", ".", "0", ".", "0", ".", "2">>
IP6_C == <<"f", "e", "8", "0", ":", ":", "1">>
MAC_D == <<"0", "0", ":", "1", "1">>
NAME_A == <<"a", ".", "l", "a", "n">>
HTTP == <<"h", "t", "t", "p">>

Addr(addrtype, addr) == [addrtype |-> addrtype, addr |-> addr]
Script(id, output) == [id |-> id, output |-> output]
ServiceElem(name, conf) == [name |-> name, conf |-> conf]

PortElem(protocol, portid, state, service, script) ==
    [protocol |-> protocol, portid |-> portid, state |-> state, service |-> service,
     script |-> script]

HostElem(times, status, address, hostnames, ports, hostscript) ==
    [times |-> times, status |-> status, address |-> address, hostnames |-> hostnames,
     ports |-> ports, hostscript |-> hostscript]

\* a host as nmap reports it: an ipv4 and a mac address, a hostname, a port
\* with a service and a script output, a port without a service, a host
\* script output
HostElemA ==
    HostElem(TRUE, Some("up"), <<Addr("ipv4", IP_A), Addr("mac", MAC_D)>>,
             <<[name |-> NAME_A, type |-> "PTR"]>>,
             <<PortElem("tcp", 80, Some("open"), Some(ServiceElem(HTTP, TRUE)),
                        <<Script(HTTP_ENUM, OUT1)>>),
               PortElem("tcp", 22, Some("closed"), NoneOf, <<>>)>>,
             <<Script(SSL_CERT, OUT2)>>)

\* a host with an ipv6 address only
HostElemC ==
    HostElem(TRUE, Some("up"), <<Addr("ipv6", IP6_C)>>, <<>>,
             <<PortElem("udp", 53, Some("open"), Some(ServiceElem(<<"d", "n", "s">>, TRUE)),
                        <<>>)>>,
             <<>>)

\* hosts with neither an ipv4 nor an ipv6 address
HostElemMacOnly == HostElem(TRUE, Some("up"), <<Addr("mac", MAC_D)>>, <<>>, <<>>, <<>>)
HostElemNoAddress == HostElem(TRUE, Some("up"), <<>>, <<>>, <<>>, <<>>)

\* hosts with another defect
HostElemNoTimes == HostElem(FALSE, Some("down"), <<Addr("ipv4", IP_B)>>, <<>>, <<>>, <<>>)
HostElemNoStatus == HostElem(TRUE, NoneOf, <<Addr("ipv4", IP_B)>>, <<>>, <<>>, <<>>)
HostElemNoPortState ==
    HostElem(TRUE, Some("up"), <<Addr("ipv4", IP_B)>>, <<>>,
             <<PortElem("tcp", 80, NoneOf, NoneOf, <<>>)>>, <<>>)
HostElemNoConf ==
    HostElem(TRUE, Some("up"), <<Addr("ipv4", IP_B)>>, <<>>,
             <<PortElem("tcp", 80, Some("open"), Some(ServiceElem(HTTP, FALSE)), <<>>)>>, <<>>)
HostElemTwiceScript ==
    HostElem(TRUE, Some("up"), <<Addr("ipv4", IP_B)>>, <<>>,
             <<PortElem("tcp", 80, Some("open"), Some(ServiceElem(HTTP, TRUE)),
                        <<Script(HTTP_ENUM, OUT1), Script(HTTP_ENUM, OUT2)>>)>>,
             <<Script(SSL_CERT, OUT1), Script(SSL_CERT, OUT2)>>)

HostElems ==
    {HostElemA, HostElemC, HostElemMacOnly, HostElemNoAddress, HostElemNoTimes,
     HostElemNoStatus, HostElemNoPortState, HostElemNoConf, HostElemTwiceScript}

Reports ==
    [finished : BOOLEAN, hosts : BOOLEAN, host : SeqsUpTo(HostElems, MaxHosts)]

InitParse ==
    /\ PortsIdle
    /\ AddrIdle
    /\ SelIdle
    /\ ElIdle
    /\ DspIdle
    /\ RegIdle
    /\ AsyncIdle
    /\ IdxIdle
    /\ xml_report \in Reports
    /\ parse_pc = "start"
    /\ scan_result = <<>>
    /\ parse_ret = [err |-> "", val |-> NoneOf]

\* _parse up to NmapScanResult(**general_info)
ParseGeneral ==
    /\ parse_pc = "start"
    /\ IF ~xml_report.finished \/ ~xml_report.hosts
       THEN /\ parse_pc' = "raised"
            /\ parse_ret' = [err |-> "AttributeError", val |-> NoneOf]
       ELSE /\ parse_pc' = "hosts"
            /\ UNCHANGED parse_ret
    /\ UNCHANGED <<xml_report, scan_result, exceptParse>>

\* one iteration of the loop over the <host> elements
ParseHost ==
    /\ parse_pc = "hosts"
    /\ Len(scan_result) < Len(xml_report.host)
    /\ LET r == ParseHostElem(xml_report.host[Len(scan_result) + 1])
       IN IF r.err # ""
          THEN /\ parse_pc' = "raised"
               /\ parse_ret' = [err |-> r.err, val |-> NoneOf]
               /\ UNCHANGED scan_result
          ELSE /\ scan_result' = Append(scan_result, r.self)
               /\ UNCHANGED <<parse_pc, parse_ret>>
    /\ UNCHANGED <<xml_report, exceptParse>>

\* return scan_result
ParseReturn ==
    /\ parse_pc = "hosts"
    /\ Len(scan_result) = Len(xml_report.host)
    /\ parse_pc' = "returned"
    /\ parse_ret' = [err |-> "", val |-> Some(scan_result)]
    /\ UNCHANGED <<xml_report, scan_result, exceptParse>>

NextParse == ParseGeneral \/ ParseHost \/ ParseReturn

SpecParse == InitParse /\ [][NextParse]_vars

(***************************************************************************)
(* The dispatch of scripts and parsers over a scan result                  *)
(***************************************************************************)
MaxHostScripts == 2
MaxPortScripts == 2
MaxParsers == 2

\* a host whose port 80 is open and has no service bound
HostElemNoService ==
    HostElem(TRUE, Some("up"), <<Addr("ipv4", IP_B)>>, <<>>,
             <<PortElem("tcp", 80, Some("open"), NoneOf, <<>>)>>, <<>>)

DispatchReports ==
    {[finished |-> TRUE, hosts |-> TRUE, host |-> hs] :
        hs \in {<<HostElemA>>, <<HostElemNoService>>, <<HostElemNoService, HostElemA>>,
                <<HostElemA, HostElemNoService>>, <<HostElemC>>, <<>>}}

ITS == <<"i", "t", "'", "s">>
STAR == PyStr(<<"*">>)

HostScriptPool ==
    {NSEHostScript(<<"h", "s", "1">>, Func("return", "hs1", <<>>), STAR),
     NSEHostScript(<<"h", "s", "2">>, Func("StopExecution", "hs2", <<>>),
                   PyList(<<IP_A, IP6_C>>)),
     NSEHostScript(<<"h", "s", "3">>, Func("ValueError", "hs3", <<>>), PyList(<<NAME_A>>))}

PortScriptPool ==
    {NSEPortScript(<<"p", "s", "1">>, Func("return", "ps1", <<>>), STAR, PyList(<<80>>),
                   Some("*"), <<"open">>),
     NSEPortScript(<<"p", "s", "2">>, Func("return", "ps2", <<>>), PyList(<<IP_A, IP6_C>>),
                   PyList(<<22, 53, 80>>), Some("*"), <<"open", "closed">>),
     NSEPortScript(<<"p", "s", "3">>, Func("StopExecution", "ps3", <<>>), STAR, PyList(<<80>>),
                   Some("tcp"), <<"open">>),
     NSEPortScript(<<"p", "s", "4">>, Func("ValueError", "ps4", <<>>), PyList(<<NAME_A>>),
                   PyList(<<80>>), Some("udp"), <<"open">>)}

\* names parsers are registered for: scripts of the report on a service
\* (http-enum) and on a host (ssl-cert), the port script ps1 of the engine,
\* and a name with a quote in it
ParserNames == {HTTP_ENUM, ITS, SSL_CERT, <<"p", "s", "1">>}

\* parsers for script n: one that returns, one that raises KeyError(n), one
\* that raises KeyError for another key
ParserFuncs(n) ==
    {Func("return", "parsed", <<>>), Func("KeyError", "look", n),
     Func("KeyError", "look", SSL_CERT)}

ParserItems == UNION {{[k |-> n, v |-> f] : f \in ParserFuncs(n)} : n \in ParserNames}

\* the dicts add_parser can build: no name twice
ParserDicts ==
    {d \in SeqsUpTo(ParserItems, MaxParsers) :
        \A i, j \in 1..Len(d) : i # j => d[i].k # d[j].k}

\* engines with scripts only, and engines with parsers, with or without a
\* global parser, and at most one script of each kind
Engines ==
    [_global_parsers : {<<>>},
     _parsers : {EmptyDict},
     _host_scripts : SeqsUpTo(HostScriptPool, MaxHostScripts),
     _port_scripts : SeqsUpTo(PortScriptPool, MaxPortScripts)]
    \cup
    [_global_parsers : {<<>>, <<Func("return", "global", <<>>)>>},
     _parsers : ParserDicts,
     _host_scripts : SeqsUpTo(HostScriptPool, 1),
     _port_scripts : SeqsUpTo(PortScriptPool, 1)]

InitDsp ==
    /\ PortsIdle
    /\ AddrIdle
    /\ SelIdle
    /\ ElIdle
    /\ ParseIdle
    /\ RegIdle
    /\ AsyncIdle
    /\ IdxIdle
    /\ dsp_engine \in Engines
    /\ \E report \in DispatchReports : dsp_result = _parse(report).val[1]
    /\ dsp_pc = "host"
    /\ dsp_h = 1
    /\ dsp_p = 0
    /\ dsp_trace = <<>>
    /\ dsp_err = ""

\* the step of the loops after the port at dsp_p of the host at dsp_h
NextPort ==
    IF dsp_p < Len(dsp_result[dsp_h]._ports)
    THEN /\ dsp_pc' = "parsers"
         /\ dsp_p' = dsp_p + 1
         /\ UNCHANGED dsp_h
    ELSE /\ dsp_pc' = "host"
         /\ dsp_h' = dsp_h + 1
         /\ dsp_p' = 0

\* engine._apply_host_scripts(host) for the next host of the result
DspHostScripts ==
    /\ dsp_pc = "host"
    /\ dsp_h <= Len(dsp_result)
    /\ LET r == _apply_host_scripts(dsp_engine, dsp_result[dsp_h], dsp_h, dsp_trace)
       IN /\ dsp_result' = [dsp_result EXCEPT ![dsp_h] = r.host]
          /\ dsp_trace' = r.trace
          /\ dsp_err' = r.err
          /\ IF r.err # ""
             THEN dsp_pc' = "raised" /\ UNCHANGED <<dsp_h, dsp_p>>
             ELSE NextPort
    /\ UNCHANGED <<dsp_engine, exceptDsp>>

\* the parser block for the next port of the host
DspParsers ==
    /\ dsp_pc = "parsers"
    /\ LET port == dsp_result[dsp_h]._ports[dsp_p]
       IN IF Len(dsp_engine._parsers) # 0 /\ port._service # NoneOf
          THEN LET r == ApplyParsersLoop(dsp_engine._parsers, port._service[1], dsp_h, dsp_p,
                                         dsp_trace)
               IN /\ dsp_result' =
                         [dsp_result EXCEPT ![dsp_h]._ports[dsp_p]._service = Some(r.service)]
                  /\ dsp_trace' = r.trace
                  /\ dsp_err' = r.err
                  /\ dsp_pc' = IF r.err # "" THEN "raised" ELSE "port_scripts"
          ELSE /\ dsp_pc' = "port_scripts"
               /\ UNCHANGED <<dsp_result, dsp_trace, dsp_err>>
    /\ UNCHANGED <<dsp_engine, dsp_h, dsp_p, exceptDsp>>

\* engine._apply_port_scripts(host, port, port.service) for that port
DspPortScripts ==
    /\ dsp_pc = "port_scripts"
    /\ LET host == dsp_result[dsp_h]
           port == host._ports[dsp_p]
           r == _apply_port_scripts(dsp_engine, host, port, port._service, dsp_h, dsp_p,
                                    dsp_trace)
       IN /\ dsp_result' = [dsp_result EXCEPT ![dsp_h]._ports[dsp_p]._service = r.service]
          /\ dsp_trace' = r.trace
          /\ dsp_err' = r.err
          /\ IF r.err # ""
             THEN dsp_pc' = "raised" /\ UNCHANGED <<dsp_h, dsp_p>>
             ELSE NextPort
    /\ UNCHANGED <<dsp_engine, exceptDsp>>

\* return result
DspReturn ==
    /\ dsp_pc = "host"
    /\ dsp_h > Len(dsp_result)
    /\ dsp_pc' = "returned"
    /\ UNCHANGED <<dsp_engine, dsp_result, dsp_h, dsp_p, dsp_trace, dsp_err, exceptDsp>>

NextDsp == DspHostScripts \/ DspParsers \/ DspPortScripts \/ DspReturn

SpecDsp == InitDsp /\ [][NextDsp]_vars

(***************************************************************************)
(* Registration of scripts and parsers on an engine                        *)
(***************************************************************************)
MaxDelayed == 2
MaxRegistered == 2

PS == <<"p", "s">>
HS == <<"h", "s">>
F1 == Func("return", "f1", <<>>)
F2 == Func("return", "f2", <<>>)
NotCallable == Func("notcallable", "5", <<>>)

\* the arguments of a registration call
Args(func, name, port, targets, proto, states) ==
    [func |-> func, name |-> name, port |-> port, targets |-> targets, proto |-> proto,
     states |-> states]

\* arguments of add_port_script and of the port_script decorators: one
\* argument moved at a time from (f, 'ps', 80, '*', '*', None)
PortScriptArgs ==
    {Args(F1, PS, port, STAR, Some("*"), NoneOf) :
        port \in {PyInt(80), PyStr(<<"*">>), PyStr(<<"2", "2", "-", "2", "3">>), PyNone,
                  PyList(<<80, 22>>), PyInt(0)}}
    \cup {Args(F1, PS, PyInt(80), STAR, Some("*"), states) :
        states \in {Some(<<>>), Some(<<"open", "closed">>), Some(<<"filtered">>),
                    Some(<<"up">>), Some(<<"open", "open">>)}}
    \cup {Args(F1, PS, PyInt(80), STAR, proto, NoneOf) :
        proto \in {Some("TCP"), Some("udp"), Some("icmp"), NoneOf}}
    \cup {Args(F1, PS, PyInt(80), targets, Some("*"), NoneOf) :
        targets \in {PyStr(IP_A), PyList(<<IP_A, NAME_A>>), PyInt(5),
                     PyStr(<<" ", "*", " ">>)}}
    \cup {Args(NotCallable, PS, PyInt(80), STAR, Some("*"), NoneOf),
          Args(F2, PS, PyStr(<<"*">>), STAR, Some("tcp"), Some(<<>>))}

\* arguments of add_host_script and of the module decorator host_script
HostScriptArgs ==
    {Args(func, HS, PyNone, targets, NoneOf, NoneOf) :
        func \in {F1, NotCallable},
        targets \in {STAR, PyStr(IP_A \o <<" ">> \o NAME_A), PyStr(IP_A \o <<"/", "3", "0">>),
                     PyList(<<IP6_C, IP6_C>>), PyNone}}

\* arguments of add_parser, add_global_parser and the module decorator parser
ParserArgs ==
    {Args(func, name, PyNone, PyNone, NoneOf, NoneOf) :
        func \in {F1, F2, NotCallable}, name \in ParserNames}

\* the decorated methods of a subclass of NSE; a definition that raises
\* never makes a class
DelayedPool ==
    {module_parser(a.name, a.func) : a \in {x \in ParserArgs : Callable(x.func)}}
    \cup {module_host_script(a.name, a.targets, a.func) :
             a \in {x \in HostScriptArgs : NewHostScript(x.name, x.func, x.targets).err = ""}}
    \cup {module_port_script(a.name, a.port, a.targets, a.proto, a.states, a.func) :
             a \in {x \in PortScriptArgs :
                      /\ x.port \in {PyInt(80), PyNone}
                      /\ x.proto = Some("*")
                      /\ x.targets = STAR
                      /\ NewPortScript(x.name, x.func, x.targets, x.port, x.proto,
                                       x.states).err = ""}}

\* the orders in which iteration can give the delayed registry
Registries ==
    {r \in SeqsUpTo(DelayedPool, MaxDelayed) :
        \A i, j \in 1..Len(r) : i # j => r[i] # r[j]}

\* the number of scripts and parsers of an engine
Registered(self) ==
    Len(self._host_scripts) + Len(self._port_scripts) + Len(self._global_parsers)
    + Len(self._parsers)

InitReg ==
    /\ PortsIdle
    /\ AddrIdle
    /\ SelIdle
    /\ ElIdle
    /\ ParseIdle
    /\ DspIdle
    /\ IdxIdle
    /\ AsyncIdle
    /\ \E r \in Registries :
          /\ reg_engine = InitLoop(NewNSE, r)
          /\ reg_last = [op |-> "__init__", args |-> r, err |-> "", before |-> NewNSE]

\* a call on the engine and what it left
RegCall(op, a, r) ==
    /\ reg_engine' = r.self
    /\ reg_last' = [op |-> op, args |-> <<a>>, err |-> r.err, before |-> reg_engine]
    /\ UNCHANGED exceptReg

\* engine.add_port_script(func, name, port, targets, proto, states)
RegAddPortScript ==
    /\ Registered(reg_engine) < MaxRegistered
    /\ \E a \in PortScriptArgs :
          RegCall("add_port_script", a,
                  add_port_script(reg_engine, a.func, a.name, a.port, a.targets, a.proto,
                                  a.states))

\* @engine.port_script(name, ports, targets, proto, states) on a function
RegPortScript ==
    /\ Registered(reg_engine) < MaxRegistered
    /\ \E a \in PortScriptArgs :
          RegCall("port_script", a,
                  port_script(reg_engine, a.name, a.port, a.targets, a.proto, a.states,
                              a.func))

\* engine.add_host_script(func, name, targets)
RegAddHostScript ==
    /\ Registered(reg_engine) < MaxRegistered
    /\ \E a \in HostScriptArgs :
          RegCall("add_host_script", a,
                  add_host_script(reg_engine, a.func, a.name, a.targets))

\* engine.add_parser(callback, script_name)
RegAddParser ==
    /\ Registered(reg_engine) < MaxRegistered
    /\ \E a \in ParserArgs :
          RegCall("add_parser", a, add_parser(reg_engine, a.func, a.name))

\* engine.add_global_parser(callback)
RegAddGlobalParser ==
    /\ Registered(reg_engine) < MaxRegistered
    /\ \E a \in {x \in ParserArgs : x.name = HTTP_ENUM} :
          RegCall("add_global_parser", a, add_global_parser(reg_engine, a.func))

\* The calls of delete_host_script and delete_port_script: a name, registered
\* or not, and the silent flag.
DeleteArgs == [name : {PS, HS}, silent : BOOLEAN]

\* engine.delete_host_script(name, silent)
RegDeleteHostScript ==
    /\ Registered(reg_engine) <= MaxRegistered
    /\ \E a \in DeleteArgs :
        RegCall("delete_host_script", a, delete_host_script(reg_engine, a.name, a.silent))

\* engine.delete_port_script(name, silent)
RegDeletePortScript ==
    /\ Registered(reg_engine) <= MaxRegistered
    /\ \E a \in DeleteArgs :
        RegCall("delete_port_script", a, delete_port_script(reg_engine, a.name, a.silent))

NextReg ==
    RegAddPortScript \/ RegPortScript \/ RegAddHostScript \/ RegAddParser
    \/ RegAddGlobalParser \/ RegDeleteHostScript \/ RegDeletePortScript

SpecReg == InitReg /\ [][NextReg]_vars

(***************************************************************************)
(* Indexing of a scan result                                               *)
(***************************************************************************)
MaxIdxHosts == 3
NAME_B == <<"b", ".", "l", "a", "n">>
IP_NONE == <<"1", "0", ".", "0", ".", "0", ".", "9">>

\* the hosts of the results: two with an ipv4 address and a name, one with
\* an ipv6 address only
IdxHostPool ==
    {NewHost("up", Some(IP_A), NoneOf, DictSet(EmptyDict, NAME_A, "PTR")),
     NewHost("up", Some(IP_B), NoneOf, DictSet(EmptyDict, NAME_B, "PTR")),
     NewHost("up", NoneOf, Some(IP6_C), EmptyDict)}

IdxResults ==
    {r \in SeqsUpTo(IdxHostPool, MaxIdxHosts) : \A i, j \in 1..Len(r) : i # j => r[i] # r[j]}

\* single selectors: addresses, a network, names
IdxSelectors == {IP_A, IP_B, IP_NONE, IP_A \o <<"/", "3", "0">>, NAME_A, NAME_B, IP6_C}

\* the values of v: one selector, two selectors in a string with a space
\* between, two selectors in a tuple
IdxArgs ==
    {PyStr(a) : a \in IdxSelectors}
    \cup {PyStr(a \o <<" ">> \o b) : a \in {IP_A, NAME_B, IP_NONE}, b \in {IP_B, NAME_A, IP_NONE}}
    \cup {PyList(<<a, b>>) : a \in {IP_A, NAME_B}, b \in {IP_B, NAME_A}}
    \cup {PyStr(<<" ">> \o IP_A \o <<" ">>), PyList(<<NAME_A>>), PyList(<<>>)}

InitIdx ==
    /\ PortsIdle
    /\ AddrIdle
    /\ SelIdle
    /\ ElIdle
    /\ ParseIdle
    /\ DspIdle
    /\ RegIdle
    /\ AsyncIdle
    /\ idx_hosts \in IdxResults
    /\ idx_last = [v |-> PyNone, ret |-> [err |-> "", multi |-> FALSE, hosts |-> <<>>]]

\* result[v]
GetItem ==
    /\ \E v \in IdxArgs : idx_last' = [v |-> v, ret |-> getitem(idx_hosts, v)]
    /\ UNCHANGED <<idx_hosts, exceptIdx>>

NextIdx == GetItem

SpecIdx == InitIdx /\ [][NextIdx]_vars

(***************************************************************************)
(* The asynchronous scanner and its child process                          *)
(***************************************************************************)
MaxOutput == 5
MaxLaunches == 2
MaxWaits == 2

NothingRead == [chunks |-> <<>>, waits |-> 0]

InitAsync ==
    /\ PortsIdle
    /\ AddrIdle
    /\ SelIdle
    /\ ElIdle
    /\ ParseIdle
    /\ DspIdle
    /\ RegIdle
    /\ IdxIdle
    /\ as_scanner = NewAsyncScanner
    /\ as_child = NoChild
    /\ as_read = NothingRead
    /\ as_last = [op |-> "__init__", err |-> "", ret |-> RetNone, read |-> <<>>,
                  before |-> NewAsyncScanner]

\* a call on the scanner with outcome r
AsCall(op, r) ==
    /\ as_scanner' = r.self
    /\ as_child' = r.child
    /\ as_last' = [op |-> op, err |-> r.err, ret |-> r.ret, read |-> r.read,
                   before |-> as_scanner]
    /\ UNCHANGED exceptAsync

\* a call that may launch a child: a new child has read nothing yet
AsLaunch(op, r) ==
    /\ AsCall(op, r)
    /\ as_read' = IF r.child.pid # as_child.pid THEN NothingRead ELSE as_read

\* scanner.scan(targets, ports, arguments, dry_run, output, engine, with_status)
Scan ==
    \E valid, dry_run, with_status, output, found \in BOOLEAN :
        /\ found => as_child.pid < MaxLaunches
        /\ AsLaunch("scan", scan(as_scanner, as_child, valid, dry_run, with_status, output,
                                 found))

\* scanner.raw(raw_arguments)
Raw ==
    \E forbidden, found \in BOOLEAN :
        /\ found => as_child.pid < MaxLaunches
        /\ AsLaunch("raw", raw(as_scanner, as_child, forbidden, found))

\* scanner.resume(xml_file)
Resume ==
    \E found \in BOOLEAN :
        /\ found => as_child.pid < MaxLaunches
        /\ AsLaunch("resume", resume(as_scanner, as_child, found))

\* scanner.reset()
Reset ==
    /\ AsCall("reset", reset(as_scanner, as_child))
    /\ as_read' = NothingRead

\* scanner.finished()
Finished ==
    /\ AsCall("finished", finished(as_scanner, as_child))
    /\ UNCHANGED as_read

\* scanner.get_result()
GetResult ==
    /\ AsCall("get_result", get_result(as_scanner, as_child))
    /\ UNCHANGED as_read

\* wait() reaches communicate(), which returns at the end of the child's output
WaitCommunicates ==
    as_scanner._has_started /\ as_scanner._nmap_process # NoneOf

\* scanner.wait()
Wait ==
    /\ WaitCommunicates => (as_child.exited /\ as_read.waits < MaxWaits)
    /\ AsCall("wait", wait(as_scanner, as_child))
    /\ as_read' = IF WaitCommunicates THEN [as_read EXCEPT !.waits = @ + 1] ELSE as_read

\* get_status() reaches stdout.read(256), which returns when it has 256
\* characters or the child's output has ended
StatusReads ==
    /\ as_scanner._with_status
    /\ ~as_scanner._requires_file_parsing
    /\ as_scanner._nmap_process # NoneOf
    /\ ~as_child.closed

\* scanner.get_status()
GetStatus ==
    /\ StatusReads =>
          (as_child.exited \/ Len(as_child.rbuf) + Len(as_child.pipe) >= ChunkSize)
    /\ \E m \in ReadAhead(as_child), file_there \in BOOLEAN :
          /\ AsCall("get_status", get_status(as_scanner, as_child, m, file_there))
          /\ as_read' = [as_read EXCEPT !.chunks = @ \o get_status(as_scanner, as_child, m,
                                                                    file_there).read]

\* nmap writes the next character of its output to stdout
ChildWrites ==
    /\ as_child.pid > 0
    /\ ~as_child.exited
    /\ as_child.written < MaxOutput
    /\ as_child' = [as_child EXCEPT !.written = @ + 1, !.pipe = Append(@, as_child.written + 1)]
    /\ UNCHANGED <<as_scanner, as_read, as_last, exceptAsync>>

\* nmap ends
ChildExits ==
    /\ as_child.pid > 0
    /\ ~as_child.exited
    /\ as_child' = [as_child EXCEPT !.exited = TRUE]
    /\ UNCHANGED <<as_scanner, as_read, as_last, exceptAsync>>

NextAsync ==
    Scan \/ Raw \/ Resume \/ Reset \/ Finished \/ GetResult \/ Wait \/ GetStatus
    \/ ChildWrites \/ ChildExits

SpecAsync == InitAsync /\ [][NextAsync]_vars


(***************************************************************************)
(* Claims on the port algebra                                              *)
(***************************************************************************)
\* a non-empty list of valid ports was given
ValidPortListGiven ==
    /\ pa_arg.kind = "list"
    /\ Len(pa_arg.v) > 0
    /\ \A i \in 1..Len(pa_arg.v) : pa_arg.v[i] \in 1..65535

StrictlyAscending(l) == \A i \in 1..(Len(l) - 1) : l[i] < l[i + 1]

TermsOf(s) == Split(RemoveChar(s, " "), ",")

\* a term the specification calls invalid: neither an integer nor a range
\* of two integers, a port outside 1..65535, a range reaching outside
\* 1..65535, or a range a-b with a > b
InvalidTerm(t) ==
    LET pieces == Split(t, "-")
    IN /\ Len(t) > 0
       /\ IF Len(pieces) = 1 THEN
              ~IsIntLiteral(t) \/ StrToInt(t) \notin 1..65535
          ELSE
              \/ Len(pieces) # 2
              \/ ~IsIntLiteral(pieces[1])
              \/ ~IsIntLiteral(pieces[2])
              \/ StrToInt(pieces[1]) \notin 1..65535
              \/ StrToInt(pieces[2]) \notin 1..65535
              \/ StrToInt(pieces[1]) > StrToInt(pieces[2])

\* C9: ports_to_list raises InvalidPortError for every port specification
\* holding a comma-term that is not an integer, a port outside 1..65535, an
\* out-of-bounds range or an inverted range; it returns no list for it.
C9_InvalidSpecRaises ==
    (pa_pc = "parsed" /\ \E k \in 1..Len(TermsOf(pa_arg.v)) : InvalidTerm(TermsOf(pa_arg.v)[k]))
        => pa_list.err = "InvalidPortError"

\* s is the canonical rendering of the set S of ports
IsCanonical(s, S) ==
    LET terms == Split(s, ",")
        Pieces(k) == Split(terms[k], "-")
        Lo(k) == StrToInt(Pieces(k)[1])
        Hi(k) == StrToInt(Pieces(k)[Len(Pieces(k))])
        Plain(x) == IsIntLiteral(x) /\ (Len(x) = 1 \/ x[1] # "0")
    IN /\ \A k \in 1..Len(terms) :
             /\ Len(Pieces(k)) \in {1, 2}
             /\ \A j \in 1..Len(Pieces(k)) : Plain(Pieces(k)[j])
             /\ Len(Pieces(k)) = 2 => Lo(k) < Hi(k)
       /\ \A k \in 1..(Len(terms) - 1) : Hi(k) + 1 < Lo(k + 1)
       /\ UNION {Lo(k)..Hi(k) : k \in 1..Len(terms)} = S

\* C10: for every non-empty list of valid ports, ports_to_str renders the
\* distinct ports in ascending order, every maximal run of two or more
\* consecutive ports as start-end, every isolated port alone, the terms
\* joined by single commas with no leading, trailing or doubled comma.
C10_Canonical ==
    (pa_pc \in {"rendered", "roundtrip"} /\ ValidPortListGiven) =>
        /\ pa_str.err = ""
        /\ IsCanonical(pa_str.val, SeqToSet(pa_arg.v))

\* a rendering that holds a run, then an isolated port given first
C10_Witness ==
    /\ pa_pc = "rendered"
    /\ ValidPortListGiven
    /\ pa_str = Ok(<<"1", "-", "2", ",", "5">>)
    /\ pa_arg.v[1] = 5

(***************************************************************************)
(* Claims on the address functions                                         *)
(***************************************************************************)
\* the argument of dispatch_network is addr/CIDR with a valid address and
\* a CIDR of 0..32
ValidNetGiven ==
    LET parts == Split(net_arg, "/")
    IN /\ Len(parts) = 2
       /\ valid_ip(parts[1])
       /\ IsIntLiteral(parts[2])
       /\ StrToInt(parts[2]) \in 0..32

\* the block of net_arg: the addresses that share its first CIDR bits
BlockOf(network) ==
    LET parts == Split(network, "/")
        a == inet_aton(parts[1])
        size == Pow2(32 - StrToInt(parts[2]))
        near == {n \in (a - (size - 1))..(a + (size - 1)) : n >= 0}
    IN {n \in near : n \div size = a \div size}

Smallest(S) == CHOOSE x \in S : \A y \in S : x <= y
Largest(S) == CHOOSE x \in S : \A y \in S : x >= y

\* the list l holds exactly the addresses of S, ascending
ListsAddresses(l, S) ==
    /\ Len(l) = Cardinality(S)
    /\ \A i \in 1..Len(l) : valid_ip(l[i]) /\ inet_aton(l[i]) \in S
    /\ \A i \in 1..(Len(l) - 1) : inet_aton(l[i]) < inet_aton(l[i + 1])

IpRangeAscendingGiven == IpOrd(ipr_arg[1]) <= IpOrd(ipr_arg[2])

\* C3: for valid dotted quads a <= b, ip_range returns the addresses from a
\* to b inclusive, ascending, each once, carrying into the octet to the
\* left when an octet passes 255; the loop never walks past b.
C3_IpRangeWalk ==
    (ipr_pc \in {"loop", "done"} /\ IpRangeAscendingGiven) =>
        LET a == IpOrd(ipr_arg[1])
            b == IpOrd(ipr_arg[2])
        IN /\ Len(ip_range_list) <= b - a + 1
           /\ \A i \in 1..Len(ip_range_list) : ip_range_list[i] = OrdToIp(a + i - 1)
           /\ split_starting_ip = SplitIp(ip_range_list[Len(ip_range_list)])
           /\ Len(ip_range_list) = b - a + 1 => split_starting_ip = split_ending_ip
           /\ ipr_pc = "done" => Len(ip_range_list) = b - a + 1

\* a returned range that carries from 192.168.1.255 to 192.168.2.0
C3_Witness ==
    /\ ipr_pc = "done"
    /\ \E i \in 1..(Len(ip_range_list) - 1) :
          /\ ip_range_list[i] = JoinIp(<<192, 168, 1, 255>>)
          /\ ip_range_list[i + 1] = JoinIp(<<192, 168, 2, 0>>)

ServiceScripts(host, i) == host._ports[i]._service[1]._scripts

\* C6: adding a script to a Service under a name that Service already holds
\* raises an error and leaves every stored output as it was; a name the
\* Service does not hold yet is stored, whether or not the Host or the
\* Service of another Port holds the same name, and adding to the Host
\* never conflicts with what the Services hold.
C6_ServiceDuplicateRejected ==
    /\ el_last.op = "Service._add_script" =>
          IF DictHas(ServiceScripts(el_last.before, el_last.port), el_last.name)
          THEN el_last.err = "RuntimeError" /\ el_host = el_last.before
          ELSE /\ el_last.err = ""
               /\ DictGet(ServiceScripts(el_host, el_last.port), el_last.name) = el_last.output
               /\ el_host._scripts = el_last.before._scripts
               /\ \A j \in 1..Len(el_host._ports) :
                     j # el_last.port =>
                         ServiceScripts(el_host, j) = ServiceScripts(el_last.before, j)
    /\ el_last.op = "Host._add_script" =>
          /\ el_last.err = ""
          /\ DictGet(el_host._scripts, el_last.name) = el_last.output
          /\ el_host._ports = el_last.before._ports

\* the name is held by the host and by both services, and a second add to
\* the first service has just been rejected
C6_Witness ==
    /\ el_last.op = "Service._add_script"
    /\ el_last.port = 1
    /\ el_last.name = HTTP_ENUM
    /\ el_last.output = OUT2
    /\ el_last.err = "RuntimeError"
    /\ DictGet(ServiceScripts(el_host, 1), HTTP_ENUM) = OUT1
    /\ DictHas(el_host._scripts, HTTP_ENUM)
    /\ DictHas(ServiceScripts(el_host, 2), HTTP_ENUM)

(***************************************************************************)
(* Claims on the parser                                                    *)
(***************************************************************************)
\* the <host> element has neither an ipv4 nor an ipv6 address record
Addressless(host) ==
    \A i \in 1..Len(host.address) : host.address[i].addrtype \notin {"ipv4", "ipv6"}

ParseEnded == parse_pc \in {"returned", "raised"}

\* C5: ingesting a report in which some host element has neither an ipv4
\* nor an ipv6 address fails with XMLParsingError and returns no result,
\* whatever hosts preceded the offending one.
C5_AddresslessHostIsParseError ==
    (ParseEnded /\ \E i \in 1..Len(xml_report.host) : Addressless(xml_report.host[i])) =>
        parse_ret.err = "XMLParsingError" /\ parse_ret.val = NoneOf

(***************************************************************************)
(* Claims on the dispatch                                                  *)
(***************************************************************************)
\* C7: when the named parser for script N is applied to a service, a
\* KeyError whose key is exactly N is ignored and the dispatch goes on, a
\* KeyError for any other key leaves the dispatch as an exception, and in
\* both cases the parser has changed none of the outputs.
C7_ParserLookupFailure ==
    \A i \in 1..Len(dsp_trace) :
        LET e == dsp_trace[i]
        IN (e.what = "parser" /\ e.key # NoneOf) =>
               /\ ~e.changed
               /\ IF e.key[1] = e.name
                  THEN e.outcome = "ignored" /\ (i = Len(dsp_trace) => dsp_pc # "raised")
                  ELSE e.outcome = "raised" /\ dsp_pc = "raised" /\ dsp_err = "KeyError"

\* the port scripts of the engine that match the port p of the host h
MatchingPortScripts(h, p) ==
    {k \in 1..Len(dsp_engine._port_scripts) :
        /\ TargetsMatch(dsp_engine._port_scripts[k], dsp_result[h])
        /\ PortFilter(dsp_engine._port_scripts[k], dsp_result[h]._ports[p]) = "yes"}

\* C8: a port script that matches a port with no service bound does nothing
\* there: its callback is not called, nothing is written and nothing is
\* raised; on a matching port that has a service the script is called and,
\* when the dispatch returns, its output is on that service.
C8_NoServiceIsNoOp ==
    /\ \A i \in 1..Len(dsp_trace) :
          LET e == dsp_trace[i]
          IN (e.what = "port_script" /\ dsp_result[e.h]._ports[e.p]._service = NoneOf) =>
                 ~e.called /\ e.outcome # "raised"
    /\ dsp_err # "AttributeError"
    /\ dsp_pc = "returned" =>
          \A h \in 1..Len(dsp_result) : \A p \in 1..Len(dsp_result[h]._ports) :
              \A k \in MatchingPortScripts(h, p) :
                  LET i == dsp_engine._port_scripts[k]
                      service == dsp_result[h]._ports[p]._service
                  IN (service # NoneOf /\ i.func.kind = "return") =>
                         /\ DictHas(service[1]._scripts, i.name)
                         /\ DictGet(service[1]._scripts, i.name) = <<i.func.tag>>

\* the host at h has been through _apply_host_scripts without an exception
HostScriptsApplied(h) ==
    h < dsp_h \/ (h = dsp_h /\ dsp_pc \in {"parsers", "port_scripts"})

\* the port p of the host at h has been through _apply_port_scripts without
\* an exception
PortScriptsApplied(h, p) == h < dsp_h \/ (h = dsp_h /\ p < dsp_p)

\* the callback of the script or parser called name has been called for the
\* host at h (p = 0) or for its port p
Called(what, name, h, p) ==
    \E j \in 1..Len(dsp_trace) :
        /\ dsp_trace[j].what = what /\ dsp_trace[j].name = name
        /\ dsp_trace[j].h = h /\ dsp_trace[j].p = p /\ dsp_trace[j].called

\* the target filter as the specification states it: the wildcard, or the
\* primary address of the host in the set, or one of its hostnames in the set
TargetFilterHolds(i, host) ==
    \/ i.targets = STAR
    \/ /\ i.targets.t = "list"
       /\ \/ HostIp(host) # NoneOf /\ HostIp(host)[1] \in SeqToSet(i.targets.l)
          \/ \E x \in DictKeys(host._hostnames) : x \in SeqToSet(i.targets.l)

\* C11: a host script is run on a host if and only if its target filter is
\* '*', or the primary address of the host (ipv4 if it has one, else ipv6)
\* is in the filter, or one of the hostnames of the host is in the filter.
C11_HostScriptRunsIff ==
    \A h \in 1..Len(dsp_result) :
        HostScriptsApplied(h) =>
            \A k \in 1..Len(dsp_engine._host_scripts) :
                LET i == dsp_engine._host_scripts[k]
                IN Called("host_script", i.name, h, 0) <=> TargetFilterHolds(i, dsp_result[h])

\* C12: a port script is run on a host, port and service if and only if the
\* host matches its target filter, its protocol filter is '*' or the
\* protocol of the port, its port filter is '*' or contains the port number,
\* and the state of the port is one of its states.
C12_PortScriptRunsIff ==
    \A h \in 1..Len(dsp_result) : \A p \in 1..Len(dsp_result[h]._ports) :
        PortScriptsApplied(h, p) =>
            \A k \in 1..Len(dsp_engine._port_scripts) :
                LET i == dsp_engine._port_scripts[k]
                    port == dsp_result[h]._ports[p]
                IN Called("port_script", i.name, h, p) <=>
                       /\ TargetFilterHolds(i, dsp_result[h])
                       /\ i.proto = Some("*") \/ i.proto = Some(port.protocol)
                       /\ i.ports = STAR \/ port.number \in SeqToSet(i.ports.l)
                       /\ port.state \in SeqToSet(i.states)

\* the last call was a port-script registration, by add_port_script or by the
\* decorator of the engine
PortScriptCall == reg_last.op \in {"add_port_script", "port_script"}

\* C13: a port-script registration whose port filter is '*' and whose other
\* arguments are valid raises nothing and appends a script whose port filter
\* is the wildcard, the one filter that _apply_port_scripts lets every port
\* number through.
C13_WildcardPortRegisters ==
    (/\ PortScriptCall
     /\ reg_last.args[1].port = STAR
     /\ Callable(reg_last.args[1].func)
     /\ SetTargets(reg_last.args[1].targets).err = ""
     /\ SetProto(reg_last.args[1].proto).err = "")
    => /\ reg_last.err = ""
       /\ Len(reg_engine._port_scripts) = Len(reg_last.before._port_scripts) + 1
       /\ reg_engine._port_scripts[Len(reg_engine._port_scripts)].ports = STAR

\* C14: every port script of an engine has a state list that is not empty and
\* holds only 'open', 'closed' and 'filtered'.
C14_StatesNonEmpty ==
    \A k \in 1..Len(reg_engine._port_scripts) :
        /\ reg_engine._port_scripts[k].states # <<>>
        /\ SeqToSet(reg_engine._port_scripts[k].states) \subseteq {"open", "closed", "filtered"}

\* the delayed registry holds two parsers for one script name
TwoParsersOneName(r) ==
    \E i, j \in 1..Len(r) :
        /\ i # j
        /\ r[i].cls = "_DelayedParserAbstraction"
        /\ r[j].cls = "_DelayedParserAbstraction"
        /\ r[i].script_name = r[j].script_name

\* C20: a second parser for a script name that has one raises EngineError and
\* leaves the engine as it was, whether it comes through add_parser or through
\* the delayed registry of a subclass; add_global_parser never raises.
C20_SecondParserRejected ==
    /\ (reg_last.op = "add_parser"
        /\ DictHas(reg_last.before._parsers, reg_last.args[1].name))
       => (reg_last.err = "EngineError" /\ reg_engine = reg_last.before)
    /\ (reg_last.op = "__init__" /\ TwoParsersOneName(reg_last.args))
       => reg_last.err = "EngineError"
    /\ reg_last.op = "add_global_parser" => reg_last.err = ""

\* the scripts of the engine that _apply_host_scripts (p = 0) or
\* _apply_port_scripts lets through for the host at h and its port p, in
\* registration order
MatchingScripts(what, h, p) ==
    LET HostTest(i) == TargetsMatch(i, dsp_result[h])
        PortTest(i) == /\ TargetsMatch(i, dsp_result[h])
                       /\ PortFilter(i, dsp_result[h]._ports[p]) = "yes"
    IN IF what = "host_script" THEN SelectSeq(dsp_engine._host_scripts, HostTest)
       ELSE SelectSeq(dsp_engine._port_scripts, PortTest)

\* the entries of the trace up to j that are of the entity of entry j
EntriesBefore(j) ==
    {m \in 1..j : /\ dsp_trace[m].what = dsp_trace[j].what
                  /\ dsp_trace[m].h = dsp_trace[j].h
                  /\ dsp_trace[m].p = dsp_trace[j].p}

\* the entry j of the trace is of a script whose callback was called
ScriptEntry(j) ==
    /\ dsp_trace[j].what \in {"host_script", "port_script"}
    /\ dsp_trace[j].called

\* the script whose call made the entry j of the trace
ScriptOf(j) ==
    MatchingScripts(dsp_trace[j].what, dsp_trace[j].h, dsp_trace[j].p)[Cardinality(EntriesBefore(j))]

\* the script outputs of the entity of a trace entry, in a result
EntityScripts(result, e) ==
    IF e.what = "host_script" THEN result[e.h]._scripts
    ELSE IF result[e.h]._ports[e.p]._service = NoneOf THEN EmptyDict
    ELSE result[e.h]._ports[e.p]._service[1]._scripts

\* the entries this step adds to the trace
NewEntries == (Len(dsp_trace) + 1)..Len(dsp_trace')

\* this step wrote nothing under the name of the new entry j, unless another
\* call of this step stored an output under that name on the same entity
NothingWritten(j) ==
    LET e == dsp_trace'[j]
    IN (\A m \in NewEntries :
            ~(/\ dsp_trace'[m].what = e.what /\ dsp_trace'[m].name = e.name
              /\ dsp_trace'[m].h = e.h /\ dsp_trace'[m].p = e.p
              /\ dsp_trace'[m].outcome = "stored"))
       => /\ DictHas(EntityScripts(dsp_result', e), e.name)
             = DictHas(EntityScripts(dsp_result, e), e.name)
          /\ DictHas(EntityScripts(dsp_result, e), e.name)
             => DictGet(EntityScripts(dsp_result', e), e.name)
                = DictGet(EntityScripts(dsp_result, e), e.name)

\* C15: a host script or port script whose callback raises StopExecution
\* leaves no exception for the caller and is not the end of the loops: the
\* next matching script of the same host or port is called after it, and
\* after the last one the dispatch goes on to what follows; the step writes
\* no output under the name of that script.
C15_StopExecutionSwallowed ==
    /\ [](/\ dsp_err # "StopExecution"
          /\ \A j \in 1..Len(dsp_trace) :
                (ScriptEntry(j) /\ ScriptOf(j).func.kind = "StopExecution") =>
                    LET e == dsp_trace[j]
                        n == Cardinality(EntriesBefore(j))
                        matching == MatchingScripts(e.what, e.h, e.p)
                    IN IF n < Len(matching)
                       THEN /\ j < Len(dsp_trace)
                            /\ dsp_trace[j + 1].what = e.what
                            /\ dsp_trace[j + 1].h = e.h
                            /\ dsp_trace[j + 1].p = e.p
                            /\ dsp_trace[j + 1].name = matching[n + 1].name
                       ELSE j = Len(dsp_trace) => dsp_pc # "raised")
    /\ [][\A j \in NewEntries :
              dsp_trace'[j].outcome = "StopExecution" => NothingWritten(j)]_vars

\* a dispatch that returned after a script raised StopExecution on a host and
\* the next script of that host stored its output
C15_Witness ==
    /\ dsp_pc = "returned"
    /\ \E j \in 1..(Len(dsp_trace) - 1) :
          /\ ScriptEntry(j)
          /\ ScriptOf(j).func.kind = "StopExecution"
          /\ dsp_trace[j + 1].what = dsp_trace[j].what
          /\ dsp_trace[j + 1].h = dsp_trace[j].h
          /\ dsp_trace[j + 1].p = dsp_trace[j].p
          /\ dsp_trace[j + 1].outcome = "stored"
          /\ ~DictHas(EntityScripts(dsp_result, dsp_trace[j]), dsp_trace[j].name)
    /\ \E j \in 1..Len(dsp_trace) : dsp_trace[j].outcome = "StopExecution" /\ dsp_trace[j].h = 1
    /\ \E j \in 1..Len(dsp_trace) : dsp_trace[j].h = 2

\* C16: a script callback that raises anything but StopExecution ends the
\* dispatch: the exception it raised is the one the caller gets, its entry is
\* the last of the trace, and the step writes no output under its name.
C16_OtherExceptionsPropagate ==
    /\ [](\A j \in 1..Len(dsp_trace) :
            (ScriptEntry(j) /\ ScriptOf(j).func.kind \notin {"return", "StopExecution"}) =>
                /\ j = Len(dsp_trace)
                /\ dsp_pc = "raised"
                /\ dsp_err = ScriptOf(j).func.kind)
    /\ [][\A j \in NewEntries :
              (dsp_trace'[j].what \in {"host_script", "port_script"}
               /\ dsp_trace'[j].outcome = "raised") => NothingWritten(j)]_vars

\* a dispatch that a ValueError of a script callback ended, after an earlier
\* script of the same engine had stored its output, with a host or a port
\* left that no script was applied to
C16_Witness ==
    /\ dsp_pc = "raised"
    /\ dsp_err = "ValueError"
    /\ Len(dsp_trace) > 1
    /\ dsp_trace[1].outcome = "stored"
    /\ ScriptEntry(Len(dsp_trace))
    /\ ScriptOf(Len(dsp_trace)).func.kind = "ValueError"
    /\ dsp_h < Len(dsp_result) \/ dsp_p < Len(dsp_result[dsp_h]._ports)

\* the scripts of the engine whose filters, as the specification states them,
\* hold for the host at h (p = 0) or for its port p, in registration order
ScriptsToRun(what, h, p) ==
    LET HostTest(i) == TargetFilterHolds(i, dsp_result[h])
        PortTest(i) ==
            /\ TargetFilterHolds(i, dsp_result[h])
            /\ i.proto = Some("*") \/ i.proto = Some(dsp_result[h]._ports[p].protocol)
            /\ i.ports = STAR \/ dsp_result[h]._ports[p].number \in SeqToSet(i.ports.l)
            /\ dsp_result[h]._ports[p].state \in SeqToSet(i.states)
    IN IF what = "host_script" THEN SelectSeq(dsp_engine._host_scripts, HostTest)
       ELSE SelectSeq(dsp_engine._port_scripts, PortTest)

\* the calls made for the host at h (p = 0) or its port p are those of the
\* scripts to run, in registration order, and the output of each script that
\* returned is on the entity under the name of the script
RanInOrder(what, h, p) ==
    LET OfEntity(e) == e.what = what /\ e.h = h /\ e.p = p
        entries == SelectSeq(dsp_trace, OfEntity)
        scripts == ScriptsToRun(what, h, p)
    IN /\ Len(entries) = Len(scripts)
       /\ \A n \in 1..Len(entries) :
             /\ entries[n].name = scripts[n].name
             /\ entries[n].called
             /\ scripts[n].func.kind = "return" =>
                   /\ DictHas(EntityScripts(dsp_result, entries[n]), scripts[n].name)
                   /\ \E m \in 1..Len(scripts) :
                         /\ scripts[m].name = scripts[n].name
                         /\ scripts[m].func.kind = "return"
                         /\ DictGet(EntityScripts(dsp_result, entries[n]), scripts[n].name)
                            = <<scripts[m].func.tag>>

\* C17: script callbacks are called host after host in the order of the
\* result, on each host the host scripts first and then port after port; on
\* every host and port the dispatch has gone past, every script whose
\* filters hold was called, in registration order, and the output of each
\* one that returned is stored under its name.
C17_DispatchOrder ==
    /\ \A j, m \in 1..Len(dsp_trace) :
          (/\ j < m
           /\ dsp_trace[j].what \in {"host_script", "port_script"}
           /\ dsp_trace[m].what \in {"host_script", "port_script"})
          => \/ dsp_trace[j].h < dsp_trace[m].h
             \/ dsp_trace[j].h = dsp_trace[m].h /\ dsp_trace[j].p <= dsp_trace[m].p
    /\ \A h \in 1..Len(dsp_result) :
          /\ HostScriptsApplied(h) => RanInOrder("host_script", h, 0)
          /\ \A p \in 1..Len(dsp_result[h]._ports) :
                PortScriptsApplied(h, p) => RanInOrder("port_script", h, p)

\* the script outputs of the hosts and of the services of the result
AllEntityScripts ==
    {dsp_result[h]._scripts : h \in 1..Len(dsp_result)}
    \cup {dsp_result[x[1]]._ports[x[2]]._service[1]._scripts :
             x \in {y \in (1..Len(dsp_result)) \X (1..4) :
                      /\ y[2] <= Len(dsp_result[y[1]]._ports)
                      /\ dsp_result[y[1]]._ports[y[2]]._service # NoneOf}}

\* the output is what the callback returned for it: the callbacks of the
\* model return their argument with their tag appended
ReturnedBy(callback, output) == Len(output) > 0 /\ output[Len(output)] = callback.tag

\* C18: when the dispatch has returned, every output that a host or a service
\* holds under a name a parser is registered for is what that parser
\* returned, whether the output came with the report or from a script of
\* the engine.
C18_ParsersAfterScripts ==
    dsp_pc = "returned" =>
        \A k \in 1..Len(dsp_engine._parsers) : \A scripts \in AllEntityScripts :
            (/\ dsp_engine._parsers[k].v.kind = "return"
             /\ DictHas(scripts, dsp_engine._parsers[k].k))
            => ReturnedBy(dsp_engine._parsers[k].v, DictGet(scripts, dsp_engine._parsers[k].k))

\* C19: when the dispatch has returned, every output of every host and
\* service is what the last registered global parser returned for it.
C19_GlobalParsersRun ==
    (dsp_pc = "returned" /\ dsp_engine._global_parsers # <<>>) =>
        \A scripts \in AllEntityScripts : \A n \in DictKeys(scripts) :
            ReturnedBy(dsp_engine._global_parsers[Len(dsp_engine._global_parsers)],
                       DictGet(scripts, n))

\* C21: a registration call whose callback is not callable raises and leaves
\* the engine as it was; every call that raises leaves the engine as it was;
\* and no port script is kept whose port filter is None, the value on which
\* the membership test of _apply_port_scripts raises TypeError.
C21_EagerValidation ==
    /\ (reg_last.op \in {"add_port_script", "port_script", "add_host_script", "add_parser",
                         "add_global_parser"}
        /\ ~Callable(reg_last.args[1].func))
       => (reg_last.err # "" /\ reg_engine = reg_last.before)
    /\ reg_last.err # "" => reg_engine = reg_last.before
    /\ \A k \in 1..Len(reg_engine._port_scripts) :
          reg_engine._port_scripts[k].ports.t # "NoneType"

\* C22: ingesting a report without the <finished> element or without the
\* <hosts> element ends with XMLParsingError and no result.
C22_MissingSectionIsParseError ==
    (ParseEnded /\ (~xml_report.finished \/ ~xml_report.hosts)) =>
        parse_ret.err = "XMLParsingError" /\ parse_ret.val = NoneOf

\* a <host> element that has all that _parse requires of it, whatever
\* optional attributes its <service> elements lack
RequiredPresent(host) ==
    /\ host.times
    /\ host.status # NoneOf
    /\ ~Addressless(host)
    /\ \A k \in 1..Len(host.ports) :
          /\ host.ports[k].state # NoneOf
          /\ \A i, j \in 1..Len(host.ports[k].script) :
                i # j => host.ports[k].script[i].id # host.ports[k].script[j].id

\* C23: a report whose elements have all that is required is ingested
\* without an exception whichever optional attributes its services lack, the
\* conf attribute among them.
C23_AbsentServiceAttributes ==
    (/\ ParseEnded
     /\ xml_report.finished
     /\ xml_report.hosts
     /\ \A i \in 1..Len(xml_report.host) : RequiredPresent(xml_report.host[i]))
    => parse_ret.err = "" /\ parse_ret.val # NoneOf

\* C24: tcp(n) and udp(n) with an integer n in 1..65535, on a selection
\* that has neither that protocol nor top ports yet, raise nothing and keep
\* the port n for that protocol.
C24_IntegerPortAccepted ==
    (/\ sel_last.op \in {"tcp", "udp"}
     /\ sel_last.arg.t = "int"
     /\ sel_last.arg.n \in 1..MAX_PORT
     /\ ~sel_last.before._has_added_top_ports
     /\ IF sel_last.op = "tcp" THEN ~sel_last.before._has_added_tcp
        ELSE ~sel_last.before._has_added_udp)
    => /\ sel_last.err = ""
       /\ IF sel_last.op = "tcp" THEN sel._tcp_ports = Some(IntToStr(sel_last.arg.n))
          ELSE sel._udp_ports = Some(IntToStr(sel_last.arg.n))

\* what one selector says of a host: its address is the selector or in the
\* network, or one of its names is the selector
SelectorMatches(i, host) == HostSelected(host, IpsOf(i), HostnamesOf(i))

\* the hosts of the result that some selector of v matches, in result order
HostsMatching(v) ==
    LET Test(host) == \E k \in 1..Len(Selectors(v)) : SelectorMatches(Selectors(v)[k], host)
    IN SelectSeq(idx_hosts, Test)

\* C25: result[v] with several selectors is the list, in result order, of
\* the hosts that at least one selector matches; with one selector it is the
\* first host that matches, or None.
C25_MultiIndex ==
    (idx_last.v # PyNone /\ Selectors(idx_last.v) # <<>>) =>
        /\ idx_last.ret.err = ""
        /\ idx_last.ret.multi = (Len(Selectors(idx_last.v)) > 1)
        /\ idx_last.ret.hosts =
              IF Len(Selectors(idx_last.v)) > 1 THEN HostsMatching(idx_last.v)
              ELSE FirstOrNone(HostsMatching(idx_last.v))


\* C26: after delete_host_script(name) or delete_port_script(name) no script of
\* that name is left in the registry the dispatcher walks, and a call with
\* silent=True does not raise.
C26_DeleteScript ==
    /\ reg_last.op = "delete_host_script" =>
          /\ \A k \in 1..Len(reg_engine._host_scripts) :
                reg_engine._host_scripts[k].name # reg_last.args[1].name
          /\ reg_last.args[1].silent => reg_last.err = ""
    /\ reg_last.op = "delete_port_script" =>
          /\ \A k \in 1..Len(reg_engine._port_scripts) :
                reg_engine._port_scripts[k].name # reg_last.args[1].name
          /\ reg_last.args[1].silent => reg_last.err = ""

\* C27: a script output is written once per name and entity: _add_script under
\* a name the Host, or the Service, already holds raises and leaves the stored
\* output as it was.
C27_WriteOncePerEntity ==
    /\ (el_last.op = "Host._add_script"
        /\ DictHas(el_last.before._scripts, el_last.name))
       => (el_last.err # "" /\ el_host._scripts = el_last.before._scripts)
    /\ (el_last.op = "Service._add_script"
        /\ DictHas(el_last.before._ports[el_last.port]._service[1]._scripts, el_last.name))
       => (el_last.err # ""
           /\ el_host._ports[el_last.port]._service[1]._scripts
              = el_last.before._ports[el_last.port]._service[1]._scripts)

\* the numeric order of two lists of four octets, compared from the left
OctetsLeq(x, y) ==
    \E k \in 1..5 :
        /\ \A j \in 1..(k - 1) : x[j] = y[j]
        /\ k = 5 \/ x[k] < y[k]

\* C28: ip_range(a, b) terminates for every pair of valid addresses, a > b
\* included.  The loop ends only when the running address equals b and every
\* iteration moves the running address one address up, so the call returns
\* exactly when b is never behind the running address.
C28_IpRangeTerminates ==
    ipr_pc = "loop" => OctetsLeq(split_starting_ip, split_ending_ip)

C30_StartedOnlyWithProcess ==
    /\ as_scanner._has_started => as_scanner._nmap_process # NoneOf
    /\ as_last.err = "NmapScanError: already scanning" =>
          as_last.before._nmap_process # NoneOf
    /\ (as_last.op \in {"finished", "wait", "get_result"}
        /\ as_last.err # "NmapScanError: not started")
       => as_last.err # "AttributeError"

=========================================================================
